---------------------------- MODULE Spec2Model ----------------------------
(***************************************************************************)
(* Mod Identification & Synchronization Engine of src-tauri/src/main.rs:   *)
(* the name cleaner, the hint matcher, the deduction pipeline, the         *)
(* enable-state model (toggle) and the directory scan with pruning.        *)
(*                                                                         *)
(* Strings are sequences of one-character strings, so that the regular     *)
(* expressions, trimming, lowercasing and prefix tests of the source are   *)
(* computed character by character.  Paths are sequences of names          *)
(* relative to the mods root.                                              *)
(***************************************************************************)
EXTENDS Integers, Sequences, FiniteSets, TLC

(***************************************************************************)
(* Characters and strings                                                  *)
(***************************************************************************)
LowerLetters == <<"a","b","c","d","e","f","g","h","i","j","k","l","m",
                  "n","o","p","q","r","s","t","u","v","w","x","y","z">>
UpperLetters == <<"A","B","C","D","E","F","G","H","I","J","K","L","M",
                  "N","O","P","Q","R","S","T","U","V","W","X","Y","Z">>

Range(f) == {f[i] : i \in DOMAIN f}

IsUpper(c) == c \in Range(UpperLetters)
IsAlpha(c) == c \in Range(LowerLetters) \cup Range(UpperLetters)
IsDigit(c) == c \in {"0","1","2","3","4","5","6","7","8","9"}
IsSpace(c) == c \in {" "}

\* char::to_lowercase on the ASCII letters
LowerChar(c) ==
  IF IsUpper(c)
  THEN LowerLetters[CHOOSE i \in 1..26 : UpperLetters[i] = c]
  ELSE c

\* str::to_lowercase
to_lowercase(s) == [i \in 1..Len(s) |-> LowerChar(s[i])]

\* s[i..] (1-based), empty when i is past the end
Drop(s, n) == IF n >= Len(s) THEN <<>> ELSE SubSeq(s, n + 1, Len(s))
Take(s, n) == IF n >= Len(s) THEN s ELSE SubSeq(s, 1, n)

\* str::starts_with
starts_with(s, p) == Len(p) <= Len(s) /\ SubSeq(s, 1, Len(p)) = p

\* str::starts_with at offset i (0-based offset), case-insensitively when ci
MatchesAt(s, i, p, ci) ==
  /\ i + Len(p) <= Len(s)
  /\ \A k \in 1..Len(p) :
       IF ci THEN LowerChar(s[i + k]) = LowerChar(p[k]) ELSE s[i + k] = p[k]

\* str::contains
contains(s, p) == \E i \in 0..(Len(s) - Len(p)) : MatchesAt(s, i, p, FALSE)

\* str::trim
RECURSIVE trim_start(_)
trim_start(s) ==
  IF s # <<>> /\ IsSpace(Head(s)) THEN trim_start(Tail(s)) ELSE s

RECURSIVE trim_end(_)
trim_end(s) ==
  IF s # <<>> /\ IsSpace(s[Len(s)]) THEN trim_end(SubSeq(s, 1, Len(s) - 1)) ELSE s

trim(s) == trim_end(trim_start(s))

\* str::split_whitespace().next(): the first whitespace-separated token, <<>> if none
RECURSIVE TokenLen(_)
TokenLen(s) == IF s = <<>> \/ IsSpace(Head(s)) THEN 0 ELSE 1 + TokenLen(Tail(s))

first_token(s) == LET t == trim_start(s) IN Take(t, TokenLen(t))

\* str::split_whitespace().collect(): all the tokens
RECURSIVE split_whitespace(_)
split_whitespace(s) ==
  LET t == trim_start(s)
      n == TokenLen(t)
  IN IF t = <<>> THEN <<>> ELSE <<Take(t, n)>> \o split_whitespace(Drop(t, n))

\* str::strip_prefix(p).unwrap_or(s): one occurrence of the prefix removed
strip_prefix_or(s, p) == IF starts_with(s, p) THEN Drop(s, Len(p)) ELSE s

\* str::trim_start_matches(p): every leading occurrence of the prefix removed
RECURSIVE trim_start_matches(_, _)
trim_start_matches(s, p) ==
  IF p # <<>> /\ starts_with(s, p) THEN trim_start_matches(Drop(s, Len(p)), p) ELSE s

(***************************************************************************)
(* Program constants                                                        *)
(***************************************************************************)
DISABLED_PREFIX == <<"D","I","S","A","B","L","E","D","_">>
DISABLED_WORD == <<"D","I","S","A","B","L","E","D">>
OTHER_ENTITY_SUFFIX == <<"-","o","t","h","e","r">>

(***************************************************************************)
(* NAME_CLEANUP_REGEX (case-insensitive), eight alternatives in this order: *)
(*   1 a run of separators: underscore, hyphen, dot, whitespace             *)
(*   2 "_v", digits, then any number of groups of a dot and digits          *)
(*   3 "_af"          4 "_nsfw"          5 "(disabled)"                     *)
(*   6 a parenthesis group, greedy: "(" to the last ")"                     *)
(*   7 a bracket group, greedy: "[" to the last "]"                         *)
(*   8 "DISABLED_" at the start of the input                                *)
(* Each alternative is the length of its match at offset i (0 = no match);  *)
(* the regex crate takes the leftmost position and there the first          *)
(* alternative that matches, each with greedy repetition.                   *)
(***************************************************************************)
IsSepChar(c) == c \in {"_", "-", "."} \/ IsSpace(c)

\* length of the run of characters satisfying a class, starting at offset i
RECURSIVE SepRun(_, _)
SepRun(s, i) == IF i < Len(s) /\ IsSepChar(s[i + 1]) THEN 1 + SepRun(s, i + 1) ELSE 0

RECURSIVE DigitRun(_, _)
DigitRun(s, i) == IF i < Len(s) /\ IsDigit(s[i + 1]) THEN 1 + DigitRun(s, i + 1) ELSE 0

\* alternative 2, the repeated group of a dot and digits, at offset i
RECURSIVE DotDigitGroups(_, _)
DotDigitGroups(s, i) ==
  IF i < Len(s) /\ s[i + 1] = "." /\ DigitRun(s, i + 1) > 0
  THEN 1 + DigitRun(s, i + 1) + DotDigitGroups(s, i + 1 + DigitRun(s, i + 1))
  ELSE 0

\* alternative 1
AltSeparators(s, i) == SepRun(s, i)

\* alternative 2
AltVersion(s, i) ==
  IF MatchesAt(s, i, <<"_","v">>, TRUE) /\ DigitRun(s, i + 2) > 0
  THEN 2 + DigitRun(s, i + 2) + DotDigitGroups(s, i + 2 + DigitRun(s, i + 2))
  ELSE 0

\* alternative 3
AltAf(s, i) == IF MatchesAt(s, i, <<"_","a","f">>, TRUE) THEN 3 ELSE 0

\* alternative 4
AltNsfw(s, i) == IF MatchesAt(s, i, <<"_","n","s","f","w">>, TRUE) THEN 5 ELSE 0

\* alternative 5
AltParenDisabled(s, i) ==
  IF MatchesAt(s, i, <<"(","d","i","s","a","b","l","e","d",")">>, TRUE) THEN 10 ELSE 0

\* alternatives 6 and 7: from the opener at offset i to the last closer after it
AltGroup(s, i, open, close) ==
  IF i < Len(s) /\ s[i + 1] = open /\ \E j \in (i + 2)..Len(s) : s[j] = close
  THEN (CHOOSE j \in (i + 2)..Len(s) :
          s[j] = close /\ \A k \in (j + 1)..Len(s) : s[k] # close) - i
  ELSE 0

\* alternative 8
AltLeadingDisabled(s, i) ==
  IF i = 0 /\ MatchesAt(s, 0, DISABLED_PREFIX, TRUE) THEN Len(DISABLED_PREFIX) ELSE 0

\* the alternatives in the order the pattern lists them
NameCleanupAlternatives(s, i) ==
  << AltSeparators(s, i), AltVersion(s, i), AltAf(s, i), AltNsfw(s, i),
     AltParenDisabled(s, i), AltGroup(s, i, "(", ")"), AltGroup(s, i, "[", "]"),
     AltLeadingDisabled(s, i) >>

\* the length of the first alternative that matches, 0 when none does
FirstMatching(alts) ==
  IF \E k \in 1..Len(alts) : alts[k] > 0
  THEN alts[CHOOSE k \in 1..Len(alts) :
              alts[k] > 0 /\ \A m \in 1..(k - 1) : alts[m] = 0]
  ELSE 0

\* the match of the whole pattern at offset i
NameCleanupMatchAt(s, i) == FirstMatching(NameCleanupAlternatives(s, i))

\* NAME_CLEANUP_REGEX.replace_all(input, " "): the text from offset i on,
\* and from offset i on given the length n of the match at i
RECURSIVE NameCleanupReplaceFrom(_, _)
RECURSIVE NameCleanupReplaceAt(_, _, _)
NameCleanupReplaceAt(s, i, n) ==
  IF n > 0
  THEN <<" ">> \o NameCleanupReplaceFrom(s, i + n)
  ELSE <<s[i + 1]>> \o NameCleanupReplaceFrom(s, i + 1)

NameCleanupReplaceFrom(s, i) ==
  IF i >= Len(s) THEN <<>>
  ELSE NameCleanupReplaceAt(s, i, NameCleanupMatchAt(s, i))

NAME_CLEANUP_REGEX_replace_all(s) == NameCleanupReplaceFrom(s, 0)

\* POTENTIAL_NAME_PART_REGEX (a leading run of ASCII letters and whitespace):
\* the length of its match at the start
RECURSIVE NamePartRun(_)
NamePartRun(s) ==
  IF s # <<>> /\ (IsAlpha(Head(s)) \/ IsSpace(Head(s)))
  THEN 1 + NamePartRun(Tail(s)) ELSE 0

\* the name part of the trimmed text, given the length n of the leading run
NamePart(trimmed, n) ==
  IF n > 0
  THEN to_lowercase(trim(Take(trimmed, n)))
  ELSE to_lowercase(trimmed)

ExtractName(trimmed) == NamePart(trimmed, NamePartRun(trimmed))

\* fn clean_and_extract_name
clean_and_extract_name(input) == ExtractName(trim(NAME_CLEANUP_REGEX_replace_all(input)))

(***************************************************************************)
(* Option values: None is the empty sequence, Some(v) the one-element one.  *)
(***************************************************************************)
None == <<>>
Some(v) == <<v>>
IsSome(o) == o # <<>>
Unwrap(o) == o[1]
UnwrapOr(o, default) == IF IsSome(o) THEN o[1] ELSE default

(***************************************************************************)
(* HashMap: a function from keys to values.  HashMap::insert overwrites.    *)
(* The order in which a HashMap is iterated is not specified: every         *)
(* DeductionMaps value carries, for each map the code iterates, one         *)
(* iteration order (a sequence holding each key once), fixed when the map   *)
(* is built.                                                                *)
(***************************************************************************)
EmptyMap == [k \in {} |-> <<>>]
MapInsert(m, k, v) == [q \in DOMAIN m \cup {k} |-> IF q = k THEN v ELSE m[q]]
MapGet(m, k) == IF k \in DOMAIN m THEN Some(m[k]) ELSE None

\* the sequences that hold each element of S exactly once
Orderings(S) ==
  {f \in [1..Cardinality(S) -> S] : \A i, j \in DOMAIN f : f[i] = f[j] => i = j}

\* the first key, in iteration order, among those passing a test
FirstKey(order, passing) ==
  IF \E i \in DOMAIN order : order[i] \in passing
  THEN Some(order[CHOOSE i \in DOMAIN order :
                    order[i] \in passing /\ \A j \in 1..(i - 1) : order[j] \notin passing])
  ELSE None

(***************************************************************************)
(* fn fetch_deduction_maps: the Taxonomy Index, from the category rows and  *)
(* the entity rows in the order the queries return them.                    *)
(***************************************************************************)
RECURSIVE CategoryMaps(_, _)
CategoryMaps(rows, acc) ==
  IF rows = <<>> THEN acc
  ELSE LET r == Head(rows)
       IN CategoryMaps(Tail(rows),
            [ lowercase_category_name_to_slug |->
                MapInsert(acc.lowercase_category_name_to_slug, to_lowercase(r.name), r.slug),
              category_slug_to_id |-> MapInsert(acc.category_slug_to_id, r.slug, r.id),
              category_id_to_slug |-> MapInsert(acc.category_id_to_slug, r.id, r.slug) ])

\* the first-name key of a lowercased name: its first word, unless that is the whole name
FirstNameKey(lower_name) ==
  LET words == split_whitespace(lower_name)
  IN IF Len(words) >= 1 /\ words[1] # lower_name THEN Some(words[1]) ELSE None

\* the first-two-words key: the first two words joined by a space, unless that is the whole name
FirstTwoWordsKey(lower_name) ==
  LET words == split_whitespace(lower_name)
      first_two == words[1] \o <<" ">> \o words[2]
  IN IF Len(words) >= 2 /\ first_two # lower_name THEN Some(first_two) ELSE None

RECURSIVE EntityMaps(_, _, _)
EntityMaps(rows, category_id_to_slug, acc) ==
  IF rows = <<>> THEN acc
  ELSE LET r == Head(rows)
           lower_name == to_lowercase(r.name)
           first == FirstNameKey(lower_name)
           two == FirstTwoWordsKey(lower_name)
       IN EntityMaps(Tail(rows), category_id_to_slug,
            [ entity_slug_to_id |-> MapInsert(acc.entity_slug_to_id, r.slug, r.id),
              lowercase_entity_name_to_slug |->
                MapInsert(acc.lowercase_entity_name_to_slug, lower_name, r.slug),
              entity_slug_to_category_slug |->
                IF r.category_id \in DOMAIN category_id_to_slug
                THEN MapInsert(acc.entity_slug_to_category_slug, r.slug,
                               category_id_to_slug[r.category_id])
                ELSE acc.entity_slug_to_category_slug,
              lowercase_entity_firstname_to_slug |->
                IF IsSome(first)
                THEN MapInsert(acc.lowercase_entity_firstname_to_slug, Unwrap(first), r.slug)
                ELSE acc.lowercase_entity_firstname_to_slug,
              lowercase_entity_first_two_words_to_slug |->
                IF IsSome(two)
                THEN MapInsert(acc.lowercase_entity_first_two_words_to_slug, Unwrap(two), r.slug)
                ELSE acc.lowercase_entity_first_two_words_to_slug ])

\* the maps without their iteration orders
DeductionMapsOf(tax) ==
  LET c == CategoryMaps(tax.categories,
             [ lowercase_category_name_to_slug |-> EmptyMap,
               category_slug_to_id |-> EmptyMap,
               category_id_to_slug |-> EmptyMap ])
      e == EntityMaps(tax.entities, c.category_id_to_slug,
             [ entity_slug_to_id |-> EmptyMap,
               lowercase_entity_name_to_slug |-> EmptyMap,
               entity_slug_to_category_slug |-> EmptyMap,
               lowercase_entity_firstname_to_slug |-> EmptyMap,
               lowercase_entity_first_two_words_to_slug |-> EmptyMap ])
  IN [ category_slug_to_id |-> c.category_slug_to_id,
       entity_slug_to_id |-> e.entity_slug_to_id,
       lowercase_category_name_to_slug |-> c.lowercase_category_name_to_slug,
       lowercase_entity_name_to_slug |-> e.lowercase_entity_name_to_slug,
       entity_slug_to_category_slug |-> e.entity_slug_to_category_slug,
       lowercase_entity_firstname_to_slug |-> e.lowercase_entity_firstname_to_slug,
       lowercase_entity_first_two_words_to_slug |-> e.lowercase_entity_first_two_words_to_slug ]

\* the iteration orders one DeductionMaps value may have
IterationOrders(m) ==
  [ category_slug : Orderings(DOMAIN m.category_slug_to_id),
    category_name : Orderings(DOMAIN m.lowercase_category_name_to_slug),
    entity_name : Orderings(DOMAIN m.lowercase_entity_name_to_slug),
    entity_firstname : Orderings(DOMAIN m.lowercase_entity_firstname_to_slug),
    entity_first_two : Orderings(DOMAIN m.lowercase_entity_first_two_words_to_slug) ]

\* the DeductionMaps values fetch_deduction_maps may return for a taxonomy
fetch_deduction_maps(tax) ==
  LET m == DeductionMapsOf(tax)
  IN {[maps |-> m, iter |-> o] : o \in IterationOrders(m)}

(***************************************************************************)
(* fn find_entity_slug_from_hint: the matching cascade P1..P13 (P10 is      *)
(* commented out in the source).  dm is a DeductionMaps value with its      *)
(* iteration orders.                                                        *)
(***************************************************************************)
\* the first element of a sequence of options that is Some
FirstSome(opts) ==
  CHOOSE r \in {IF \E i \in DOMAIN o : IsSome(o[i])
                THEN o[CHOOSE i \in DOMAIN o : IsSome(o[i]) /\ \A j \in 1..(i - 1) : ~IsSome(o[j])]
                ELSE None : o \in {opts}} : TRUE

\* the value of the first key, in iteration order, that passes the test
FirstValue(m, order, passing) ==
  LET k == FirstKey(order, passing) IN IF IsSome(k) THEN Some(m[Unwrap(k)]) ELSE None

\* variants of the first two strategies: the slug check left out; the matched
\* name returned in place of its slug
P1_skipped(hint, dm) == None
P2_returns_name(hint, dm) ==
  IF to_lowercase(hint) \in DOMAIN dm.maps.lowercase_entity_name_to_slug
  THEN Some(to_lowercase(hint)) ELSE None

\* a variant of P9 without the length guard on the key
P9_unguarded(cleaned_hint, dm) ==
  LET Test(firstname) == starts_with(cleaned_hint, firstname)
  IN FirstValue(dm.maps.lowercase_entity_firstname_to_slug, dm.iter.entity_firstname,
                     {x \in DOMAIN dm.maps.lowercase_entity_firstname_to_slug : Test(x)})

\* P1: the hint is an entity slug
P1_exact_slug(hint, dm) ==
  IF hint \in DOMAIN dm.maps.entity_slug_to_id THEN Some(hint) ELSE None

\* P2: the lowercased hint is a full name
P2_exact_name(hint, dm) ==
  MapGet(dm.maps.lowercase_entity_name_to_slug, to_lowercase(hint))

\* P3: the cleaned hint is a full name
P3_cleaned_name(cleaned_hint, dm) ==
  MapGet(dm.maps.lowercase_entity_name_to_slug, cleaned_hint)

\* P4: the cleaned hint is a first-two-words key
P4_cleaned_first_two(cleaned_hint, dm) ==
  MapGet(dm.maps.lowercase_entity_first_two_words_to_slug, cleaned_hint)

\* P5: the cleaned hint is a first-name key
P5_cleaned_firstname(cleaned_hint, dm) ==
  MapGet(dm.maps.lowercase_entity_firstname_to_slug, cleaned_hint)

\* P6: the first word of the cleaned hint, longer than one character, is a first-name key
P6_first_word(cleaned_hint, dm) ==
  LET first_word_cleaned == first_token(cleaned_hint)
  IN IF first_word_cleaned # <<>> /\ Len(first_word_cleaned) > 1
     THEN MapGet(dm.maps.lowercase_entity_firstname_to_slug, first_word_cleaned)
     ELSE None

\* P7: the cleaned hint starts with a full name longer than two characters
P7_starts_with_name(cleaned_hint, dm) ==
  LET Test(name) == starts_with(cleaned_hint, name) /\ Len(name) > 2
  IN FirstValue(dm.maps.lowercase_entity_name_to_slug, dm.iter.entity_name,
                     {x \in DOMAIN dm.maps.lowercase_entity_name_to_slug : Test(x)})

\* P8: the cleaned hint starts with a first-two-words key
P8_starts_with_first_two(cleaned_hint, dm) ==
  LET Test(first_two) == starts_with(cleaned_hint, first_two)
  IN FirstValue(dm.maps.lowercase_entity_first_two_words_to_slug, dm.iter.entity_first_two,
                     {x \in DOMAIN dm.maps.lowercase_entity_first_two_words_to_slug : Test(x)})

\* P9: the cleaned hint starts with a first-name key longer than one character
P9_starts_with_firstname(cleaned_hint, dm) ==
  LET Test(firstname) == starts_with(cleaned_hint, firstname) /\ Len(firstname) > 1
  IN FirstValue(dm.maps.lowercase_entity_firstname_to_slug, dm.iter.entity_firstname,
                     {x \in DOMAIN dm.maps.lowercase_entity_firstname_to_slug : Test(x)})

\* P11: the cleaned hint, longer than three characters, contains a full name
P11_contains_name(cleaned_hint, dm) ==
  LET Test(name) == contains(cleaned_hint, name)
  IN IF Len(cleaned_hint) > 3
     THEN FirstValue(dm.maps.lowercase_entity_name_to_slug, dm.iter.entity_name,
                     {x \in DOMAIN dm.maps.lowercase_entity_name_to_slug : Test(x)})
     ELSE None

\* P12: the cleaned hint, longer than three characters, contains a first-two-words key
P12_contains_first_two(cleaned_hint, dm) ==
  LET Test(first_two) == contains(cleaned_hint, first_two)
  IN IF Len(cleaned_hint) > 3
     THEN FirstValue(dm.maps.lowercase_entity_first_two_words_to_slug,
                     dm.iter.entity_first_two,
                     {x \in DOMAIN dm.maps.lowercase_entity_first_two_words_to_slug : Test(x)})
     ELSE None

\* P13: the cleaned hint, longer than two characters, contains a first-name key
P13_contains_firstname(cleaned_hint, dm) ==
  LET Test(firstname) == contains(cleaned_hint, firstname)
  IN IF Len(cleaned_hint) > 2
     THEN FirstValue(dm.maps.lowercase_entity_firstname_to_slug,
                     dm.iter.entity_firstname,
                     {x \in DOMAIN dm.maps.lowercase_entity_firstname_to_slug : Test(x)})
     ELSE None

\* the strategies in order, over the hint and its cleaned form
Cascade(hint, cleaned_hint, dm) ==
  FirstSome(<< P1_exact_slug(hint, dm),
               P2_exact_name(hint, dm),
               P3_cleaned_name(cleaned_hint, dm),
               P4_cleaned_first_two(cleaned_hint, dm),
               P5_cleaned_firstname(cleaned_hint, dm),
               P6_first_word(cleaned_hint, dm),
               P7_starts_with_name(cleaned_hint, dm),
               P8_starts_with_first_two(cleaned_hint, dm),
               P9_starts_with_firstname(cleaned_hint, dm),
               P11_contains_name(cleaned_hint, dm),
               P12_contains_first_two(cleaned_hint, dm),
               P13_contains_firstname(cleaned_hint, dm) >>)

find_entity_slug_from_hint(hint, dm) ==
  IF hint = <<>> THEN None
  ELSE Cascade(hint, clean_and_extract_name(hint), dm)

(***************************************************************************)
(* The mods directory.  A disk is a function from the relative paths of the *)
(* directories beneath the mods root (the root is the empty path) to the    *)
(* files each holds directly, in directory-listing order.  A file is        *)
(* [name, target, type]: its name and, for a config file, the target hint   *)
(* and type hint its recognised sections give (None when absent).           *)
(***************************************************************************)
Root == <<>>
is_dir(disk, p) == p \in DOMAIN disk
Parent(p) == SubSeq(p, 1, Len(p) - 1)
FileName(p) == p[Len(p)]
IsPrefix(p, q) == Len(p) <= Len(q) /\ SubSeq(q, 1, Len(p)) = p
Children(disk, p) == {q \in DOMAIN disk : Len(q) = Len(p) + 1 /\ IsPrefix(p, q)}

\* offset of the last dot of a file name, 0 when it has none
RECURSIVE LastDot(_)
LastDot(n) ==
  IF n = <<>> THEN 0 ELSE IF n[Len(n)] = "." THEN Len(n) ELSE LastDot(SubSeq(n, 1, Len(n) - 1))

\* Path::extension and Path::file_stem of a file name
extension(n) == IF LastDot(n) <= 1 THEN None ELSE Some(Drop(n, LastDot(n)))
file_stem(n) == IF LastDot(n) <= 1 THEN n ELSE Take(n, LastDot(n) - 1)

INI == <<"i","n","i">>
IsIniFile(f) == IsSome(extension(f.name)) /\ to_lowercase(Unwrap(extension(f.name))) = INI

EXCLUDED_INI_FILENAMES ==
  { <<"o","r","f","i","x",".","i","n","i">>,
    <<"r","e","g","i","o","n",".","i","n","i">>,
    <<"o","f","f","s","e","t",".","i","n","i">>,
    <<"w","a","t","e","r",".","i","n","i">>,
    <<"f","i","x","d","a","s","h",".","i","n","i">>,
    <<"d","e","l","t","a","t","i","m","e",".","i","n","i">>,
    <<"o","b","j","e","c","t",".","i","n","i">>,
    <<"t","i","m","e","r",".","i","n","i">> }

\* fn has_ini_file: the candidate-mod-folder predicate
has_ini_file(disk, dir_path) ==
  /\ is_dir(disk, dir_path)
  /\ \E i \in DOMAIN disk[dir_path] :
       LET f == disk[dir_path][i]
           filename_lower == to_lowercase(f.name)
           base_filename == trim_start_matches(filename_lower, to_lowercase(DISABLED_PREFIX))
       IN IsIniFile(f) /\ base_filename \notin EXCLUDED_INI_FILENAMES

\* fs::rename of a directory: it and everything beneath it move
Rename(disk, from, to) ==
  LET Moved(q) == IF IsPrefix(from, q) THEN to \o Drop(q, Len(from)) ELSE q
      kept == {q \in DOMAIN disk : ~IsPrefix(to, q) \/ IsPrefix(from, q)}
  IN [q \in {Moved(k) : k \in kept} |->
        disk[CHOOSE k \in kept : Moved(k) = q]]

\* whether fs::rename can succeed: the target is absent, or an empty directory
CanRename(disk, from, to) ==
  /\ is_dir(disk, from)
  /\ ~IsPrefix(from, to)
  /\ Len(to) >= 1 /\ is_dir(disk, Parent(to))
  /\ is_dir(disk, to) => (disk[to] = <<>> /\ Children(disk, to) = {})

\* fs::create_dir_all
CreateDirAll(disk, p) ==
  [q \in DOMAIN disk \cup {SubSeq(p, 1, k) : k \in 0..Len(p)} |->
     IF q \in DOMAIN disk THEN disk[q] ELSE <<>>]

\* fs::remove_dir_all
RemoveDirAll(disk, p) == [q \in {k \in DOMAIN disk : ~IsPrefix(p, k)} |-> disk[q]]

(***************************************************************************)
(* fn deduce_mod_info_v2: the target entity of a mod folder.                *)
(***************************************************************************)
\* the folders above a mod folder that the parent walks visit, nearest first:
\* the walk stops at the mods root and at the root's immediate child
AncestorNames(p) ==
  [i \in 1..(IF Len(p) >= 3 THEN Len(p) - 2 ELSE 0) |-> p[Len(p) - i]]

\* the first top-level config file of the folder, in listing order
FirstIni(files) ==
  IF \E i \in DOMAIN files : IsIniFile(files[i])
  THEN Some(files[CHOOSE i \in DOMAIN files :
                    IsIniFile(files[i]) /\ \A j \in 1..(i - 1) : ~IsIniFile(files[j])])
  ELSE None

\* a field of the first config file, if there is one and it has the field
IniField(ini, field) == IF IsSome(ini) THEN Unwrap(ini)[field] ELSE None

\* the entity a hint names, if there is a hint
FindIfSome(hint, dm) ==
  IF IsSome(hint) /\ Unwrap(hint) # <<>>
  THEN find_entity_slug_from_hint(Unwrap(hint), dm)
  ELSE None

\* a variant of steps 1-5 that consults the config target hint first
DeduceEntity_target_hint_first(files, p, dm) ==
  FirstSome(<< FindIfSome(IniField(FirstIni(files), "target"), dm),
               FindIfSome(Some(FileName(p)), dm),
               FirstSome([i \in DOMAIN AncestorNames(p) |->
                            FindIfSome(Some(AncestorNames(p)[i]), dm)]),
               FirstSome([i \in DOMAIN files |->
                            FindIfSome(Some(file_stem(files[i].name)), dm)]) >>)

\* steps 1-5: folder name, parent folders, config target hint, file-name stems
DeduceEntity(files, p, dm) ==
  FirstSome(<< FindIfSome(Some(FileName(p)), dm),
               FirstSome([i \in DOMAIN AncestorNames(p) |->
                            FindIfSome(Some(AncestorNames(p)[i]), dm)]),
               FindIfSome(IniField(FirstIni(files), "target"), dm),
               FirstSome([i \in DOMAIN files |->
                            FindIfSome(Some(file_stem(files[i].name)), dm)]) >>)

\* a folder name against the category slugs, then the lowercased category names
CategoryExact(name, dm) ==
  IF name \in DOMAIN dm.maps.category_slug_to_id THEN Some(name)
  ELSE MapGet(dm.maps.lowercase_category_name_to_slug, to_lowercase(name))

\* fallback priority 1: the parent folders against the categories
CategoryFromParents(p, dm) ==
  LET anc == AncestorNames(p)
  IN FirstSome([i \in DOMAIN anc |-> CategoryExact(anc[i], dm)])

\* fallback priority 2: the config file's type hint
CategoryFromTypeHint(type_hint, dm) ==
  LET lower_type_hint == to_lowercase(type_hint)
      cnames == dm.maps.lowercase_category_name_to_slug
      Prefix(k) == starts_with(k, lower_type_hint)
      Contains(k) == Len(lower_type_hint) > 2 /\ contains(k, lower_type_hint)
      exact == CategoryExact(type_hint, dm)
      byPrefix == FirstKey(dm.iter.category_name,
                           {x \in Range(dm.iter.category_name) : Prefix(x)})
      byContains == FirstKey(dm.iter.category_name,
                           {x \in Range(dm.iter.category_name) : Contains(x)})
  IN IF IsSome(exact) THEN exact
     ELSE IF IsSome(byPrefix) THEN Some(cnames[Unwrap(byPrefix)])
     ELSE IF IsSome(byContains) THEN Some(cnames[Unwrap(byContains)])
     ELSE None

\* a variant of priority 3 in which the top-level folder is not consulted
top_level_ignored(p, dm) == None

\* fallback priority 3: the top-level folder below the mods root
CategoryFromTopLevel(p, dm) ==
  LET top_folder_name == p[1]
      lower_top_folder == to_lowercase(top_folder_name)
      cnames == dm.maps.lowercase_category_name_to_slug
      Mutual(k) == starts_with(k, lower_top_folder) \/ starts_with(lower_top_folder, k)
      Contains(k) == Len(lower_top_folder) > 2 /\ contains(k, lower_top_folder)
      exact == CategoryExact(top_folder_name, dm)
      bySlug == FirstKey(dm.iter.category_slug,
                           {x \in Range(dm.iter.category_slug) : Mutual(x)})
      byName == FirstKey(dm.iter.category_name,
                           {x \in Range(dm.iter.category_name) : Mutual(x)})
      byContains == FirstKey(dm.iter.category_name,
                           {x \in Range(dm.iter.category_name) : Contains(x)})
  IN IF IsSome(exact) THEN exact
     ELSE IF IsSome(bySlug) THEN bySlug
     ELSE IF IsSome(byName) THEN Some(cnames[Unwrap(byName)])
     ELSE IF IsSome(byContains) THEN Some(cnames[Unwrap(byContains)])
     ELSE None

\* the category a type hint names, if there is a hint
CategoryIfSome(type_hint, dm) ==
  IF IsSome(type_hint) THEN CategoryFromTypeHint(Unwrap(type_hint), dm) ELSE None

HardcodedFallbackCategory == <<"c","h","a","r","a","c","t","e","r","s">>

\* step 6, entity not found: the category whose -other entity takes the mod
FallbackEntity(files, p, dm) ==
  UnwrapOr(FirstSome(<< CategoryFromParents(p, dm),
                        CategoryIfSome(IniField(FirstIni(files), "type"), dm),
                        CategoryFromTopLevel(p, dm) >>),
           HardcodedFallbackCategory) \o OTHER_ENTITY_SUFFIX

\* the entity slug of the Deduction for the mod folder at relative path p
deduce_mod_info_v2(disk, p, dm) ==
  UnwrapOr(DeduceEntity(disk[p], p, dm), FallbackEntity(disk[p], p, dm))

(***************************************************************************)
(* The taxonomy the catalog holds after sync_definitions: for each          *)
(* category its synthetic Other/Unknown entity (slug: category slug plus    *)
(* "-other"), then its defined entities, in row order.                      *)
(***************************************************************************)
N_Characters == <<"C","h","a","r","a","c","t","e","r","s">>
N_Klee == <<"K","l","e","e">>
N_Weapons == <<"W","e","a","p","o","n","s">>
S_characters == <<"c","h","a","r","a","c","t","e","r","s">>
S_weapons == <<"w","e","a","p","o","n","s">>
S_klee == <<"k","l","e","e">>
OTHER_ENTITY_NAME == <<"O","t","h","e","r","/","U","n","k","n","o","w","n">>
D_KleeMod == <<"K","l","e","e","M","o","d">>
D_Bow == <<"B","o","w">>
F_mod_ini == <<"m","o","d",".","i","n","i">>
F_preview_png == <<"p","r","e","v","i","e","w",".","p","n","g">>

Category(id, name, slug) == [id |-> id, name |-> name, slug |-> slug]
Entity(id, category_id, name, slug) ==
  [id |-> id, category_id |-> category_id, name |-> name, slug |-> slug]

\* sync_definitions: the synthetic entity every category owns
OtherEntity(id, cat) == Entity(id, cat.id, OTHER_ENTITY_NAME, cat.slug \o OTHER_ENTITY_SUFFIX)

CatCharacters == Category(1, N_Characters, S_characters)
CatWeapons(id) == Category(id, N_Weapons, S_weapons)

\* characters {Other/Unknown, Klee}
GameTaxonomy ==
  [ categories |-> <<CatCharacters>>,
    entities |-> << OtherEntity(1, CatCharacters),
                    Entity(2, 1, N_Klee, S_klee) >> ]

(***************************************************************************)
(* State.                                                                   *)
(*   taxonomy  the categories and entities tables (written once, by         *)
(*             sync_definitions at startup)                                 *)
(*   disk      the mods directory                                           *)
(*   assets    the rows of the assets table: [id, entity_id, folder_name]   *)
(*   nextId    the next AUTOINCREMENT id of the assets table                *)
(*   scan      the running scan_mods_directory task, its locals, and a      *)
(*             record of the catalog and disk at its start, of whether it   *)
(*             follows a completed scan with nothing changed in between,    *)
(*             and of the errors that scan counted; conflicts holds the     *)
(*             stored paths whose insert the uniqueness constraint refused, *)
(*             refused those of the scans before, the latest first, as far  *)
(*             back as nothing changed in between; conn is the database     *)
(*             connection the task works on, events the events emitted by   *)
(*             the invocation, progress the payloads of its progress        *)
(*             events, result the task's result and returned what the       *)
(*             invocation returned                                          *)
(*   scans     the number of scans started                                  *)
(*   ops       the number of commands issued and of changes made to the      *)
(*             mods directory from outside the application; interleaved     *)
(*             counts those of them that came while a scan was running      *)
(*   ret       the last command and the value it returned, with the error   *)
(*             message of an import and the request of an update            *)
(*   tog       history of consecutive successful toggles of one asset       *)
(*   call      the function under study, its input and its outputs, or the  *)
(*             preset tables and the running apply_preset, or the catalog   *)
(*             mutex and the commands running, or the second of two         *)
(*             scan_mods_directory runs                                     *)
(***************************************************************************)
VARIABLES taxonomy, disk, assets, nextId, scan, scans, ops, interleaved, ret, tog, call

vars == <<taxonomy, disk, assets, nextId, scan, scans, ops, interleaved, ret, tog, call>>
sysvars == <<taxonomy, disk, assets, nextId, scan, scans, ops, interleaved, ret, tog>>

IdleScan ==
  [ pc |-> "idle", maps |-> <<>>, iter |-> <<>>, total |-> 0, initial_db_assets |-> <<>>,
    found_asset_ids |-> {}, stack |-> <<>>, processed_mod_paths |-> {},
    processed_count |-> 0, mods_added_count |-> 0, renamed_count |-> 0,
    errors_count |-> 0, pruned_count |-> 0,
    assets0 |-> {}, disk0 |-> <<>>, disturbed |-> FALSE, second |-> FALSE,
    first_errors |-> 0,
    conflicts |-> {}, refused |-> <<>>,
    conn |-> "none", events |-> <<>>, progress |-> <<>>, result |-> "ok",
    returned |-> "none" ]

NoRet == [op |-> "none", value |-> "none"]
NoTog ==
  [ id |-> 0, count |-> 0, clean |-> <<>>, orig |-> <<>>, dest |-> <<>>, single |-> FALSE,
    disk0 |-> <<>> ]
NoCall == [fn |-> "none"]

EmptyDisk == [q \in {Root} |-> <<>>]

\* the application after startup over mods directory d: taxonomy synced, no asset catalogued
Installed(tax, d) ==
  /\ taxonomy = tax
  /\ disk = d
  /\ assets = {}
  /\ nextId = 1
  /\ scan = IdleScan
  /\ scans = 0
  /\ ops = 0
  /\ interleaved = 0
  /\ ret = NoRet
  /\ tog = NoTog

(***************************************************************************)
(* clean_and_extract_name under study: inputs are the concatenations of at  *)
(* most MaxCleanParts fragments; the function is applied to the input and   *)
(* then to its own output.                                                  *)
(***************************************************************************)
MaxCleanParts == 4

CleanFragments ==
  { <<"a">>,
    <<"B">>,
    <<"_">>,
    <<" ">>,
    <<"(","x",")">>,
    <<"1">>,
    <<"D","I","S","A","B","L","E","D">>,
    <<"v","2">> }

RECURSIVE Concats(_, _)
Concats(frags, n) ==
  IF n = 0 THEN {<<>>}
  ELSE LET shorter == Concats(frags, n - 1)
       IN shorter \cup {s \o f : s \in shorter, f \in frags}

\* the hint of the specification's cleaning scenario
H_Raiden_Shogun_v2_DISABLED ==
  <<"R","a","i","d","e","n","_","S","h","o","g","u","n","_","v","2","_","D","I","S","A","B","L","E","D">>

ScenarioHints == {H_Raiden_Shogun_v2_DISABLED}

CleanInputs == Concats(CleanFragments, MaxCleanParts) \cup ScenarioHints

InitClean ==
  /\ Installed(GameTaxonomy, EmptyDisk)
  /\ call \in {[fn |-> "clean", n |-> 0, hint |-> h, once |-> <<>>, twice |-> <<>>] :
                 h \in CleanInputs}

CleanOnce ==
  /\ call.fn = "clean" /\ call.n = 0
  /\ call' = [call EXCEPT !.n = 1, !.once = clean_and_extract_name(call.hint)]
  /\ UNCHANGED sysvars

CleanTwice ==
  /\ call.fn = "clean" /\ call.n = 1
  /\ call' = [call EXCEPT !.n = 2, !.twice = clean_and_extract_name(call.once)]
  /\ UNCHANGED sysvars

NextClean == CleanOnce \/ CleanTwice

SpecClean == InitClean /\ [][NextClean]_vars

(***************************************************************************)
(* find_entity_slug_from_hint under study.  The taxonomies are those        *)
(* sync_definitions builds from two categories and at most MaxEntities      *)
(* defined entities; the index is any value fetch_deduction_maps may        *)
(* return for the taxonomy.                                                 *)
(***************************************************************************)
MaxEntities == 2

CatX == Category(1, <<"X">>, <<"x">>)
CatY == Category(2, <<"Y">>, <<"y">>)

N_Raiden_Shogun == <<"R","a","i","d","e","n"," ","S","h","o","g","u","n">>
S_raiden_shogun == <<"r","a","i","d","e","n","-","s","h","o","g","u","n">>

\* the defined entities, as [name, slug]; among them a slug that is another
\* entity's first-name key and a name that is another entity's slug
DefinedEntities ==
  << [name |-> <<"A"," ","B","c"," ","D","e">>, slug |-> <<"a","b">>],
     [name |-> <<"A","b"," ","C","d">>, slug |-> <<"a","b","c","d">>],
     [name |-> <<"C","d">>, slug |-> <<"c","d">>],
     [name |-> <<"a","b","c","d">>, slug |-> <<"z","z">>],
     [name |-> N_Raiden_Shogun, slug |-> S_raiden_shogun] >>

\* the subsequences of 1..n
RECURSIVE Picks(_)
Picks(n) ==
  IF n = 0 THEN {<<>>}
  ELSE LET shorter == Picks(n - 1)
       IN shorter \cup {Append(k, n) : k \in shorter}

\* sync_definitions over the picked entities, all of the first category
SyncedTaxonomy(pick) ==
  [ categories |-> <<CatX, CatY>>,
    entities |->
      <<OtherEntity(1, CatX)>>
      \o [i \in DOMAIN pick |->
            Entity(i + 1, 1, DefinedEntities[pick[i]].name, DefinedEntities[pick[i]].slug)]
      \o <<OtherEntity(Len(pick) + 2, CatY)>> ]

MatchTaxonomies ==
  {SyncedTaxonomy(pick) : pick \in {k \in Picks(Len(DefinedEntities)) : Len(k) <= MaxEntities}}

HintPool ==
  { <<>>,
    <<"Q">>,
    <<"A","B"," ","C","D">>,
    <<"A","b","_","C","d">>,
    <<"A","_","B","c">>,
    <<"a"," ","b","c">>,
    <<"A","b">>,
    <<"a","b">>,
    <<"A","b"," ","Z","z">>,
    <<"A","b","c","d","Q">>,
    <<"A"," ","B","c","q">>,
    <<"A","b","q">>,
    <<"Q"," ","C","d">>,
    <<"Q"," ","A"," ","B","c">>,
    <<"Q","a","b">>,
    <<"Q","a">>,
    <<"A","q">>,
    <<"C","d","_","1">>,
    <<"o","t","h","e","r">>,
    <<"a">> } \cup ScenarioHints

MatchHints(tax) ==
  HintPool \cup {tax.entities[i].name : i \in DOMAIN tax.entities}
           \cup {tax.entities[i].slug : i \in DOMAIN tax.entities}

InitMatch ==
  /\ \E tax \in MatchTaxonomies :
       /\ Installed(tax, EmptyDisk)
       /\ call \in {[fn |-> "find", done |-> FALSE, hint |-> h, dm |-> d, out |-> None] :
                      h \in MatchHints(tax), d \in fetch_deduction_maps(tax)}

FindEntity ==
  /\ call.fn = "find" /\ ~call.done
  /\ call' = [call EXCEPT !.done = TRUE,
                          !.out = find_entity_slug_from_hint(call.hint, call.dm)]
  /\ UNCHANGED sysvars

NextMatch == FindEntity

SpecMatch == InitMatch /\ [][NextMatch]_vars

(***************************************************************************)
(* Properties of clean_and_extract_name and find_entity_slug_from_hint.     *)
(***************************************************************************)
Cleaned == call.fn = "clean" /\ call.n = 2
Matched == call.fn = "find" /\ call.done
Entities == {taxonomy.entities[i] : i \in DOMAIN taxonomy.entities}

\* C7: cleaning is idempotent - cleaning the cleaned form of any input gives
\* the cleaned form back.
C7_CleanIdempotent == Cleaned => call.twice = call.once

\* C11: the scenario hint "Raiden_Shogun_v2_DISABLED" is cleaned to exactly
\* "raiden shogun".
C11_ScenarioCleaned ==
  (call.fn = "clean" /\ call.n >= 1 /\ call.hint = H_Raiden_Shogun_v2_DISABLED) =>
    call.once = to_lowercase(N_Raiden_Shogun)

\* the entities whose full name identifies them: no other entity has the same
\* lowercased name, and no other entity has the name as its slug
NameIdentifies(e) ==
  \A o \in Entities :
    o # e => to_lowercase(o.name) # to_lowercase(e.name) /\ o.slug # e.name

\* C8 as stated: the matcher given any entity's full name returns that
\* entity's own slug.
C8_FullNameGivesOwnSlug ==
  Matched => \A e \in Entities : call.hint = e.name => call.out = Some(e.slug)

\* C8, amended: the matcher given the full name of an entity that the name
\* identifies returns that entity's slug.
C8_IdentifyingNameGivesOwnSlug ==
  Matched =>
    \A e \in Entities : call.hint = e.name /\ NameIdentifies(e) => call.out = Some(e.slug)

C8_Witness ==
  /\ Matched
  /\ \E e \in Entities :
       /\ call.hint = e.name /\ NameIdentifies(e) /\ call.out = Some(e.slug)
       /\ \E o \in Entities : o # e /\ ~NameIdentifies(o)

\* C9: the matcher given any entity's slug returns that slug, whatever names
\* or keys of the index equal it.
C9_SlugGivesItself ==
  Matched => \A e \in Entities : call.hint = e.slug => call.out = Some(e.slug)

C9_Witness ==
  /\ Matched
  /\ \E e, o \in Entities :
       /\ call.hint = e.slug /\ to_lowercase(o.name) = e.slug /\ o.slug # e.slug
       /\ call.out = Some(e.slug)

\* the slugs strategy k of the twelve selects for the hint under the index,
\* empty when its condition does not hold
Strategy(k, hint, maps) ==
  LET c == clean_and_extract_name(hint)
      names == maps.lowercase_entity_name_to_slug
      twos == maps.lowercase_entity_first_two_words_to_slug
      firsts == maps.lowercase_entity_firstname_to_slug
      tok == first_token(c)
      Exact(m, key) == IF key \in DOMAIN m THEN {m[key]} ELSE {}
      Among(m, Test(_)) == {m[key] : key \in {x \in DOMAIN m : Test(x)}}
      Starts(key) == starts_with(c, key)
      StartsLong(key) == starts_with(c, key) /\ Len(key) > 2
      StartsFirst(key) == starts_with(c, key) /\ Len(key) > 1
      Has(key) == contains(c, key)
  IN CASE k = 1 -> IF hint \in DOMAIN maps.entity_slug_to_id THEN {hint} ELSE {}
       [] k = 2 -> Exact(names, to_lowercase(hint))
       [] k = 3 -> Exact(names, c)
       [] k = 4 -> Exact(twos, c)
       [] k = 5 -> Exact(firsts, c)
       [] k = 6 -> IF Len(tok) > 1 THEN Exact(firsts, tok) ELSE {}
       [] k = 7 -> Among(names, StartsLong)
       [] k = 8 -> Among(twos, Starts)
       [] k = 9 -> Among(firsts, StartsFirst)
       [] k = 10 -> IF Len(c) > 3 THEN Among(names, Has) ELSE {}
       [] k = 11 -> IF Len(c) > 3 THEN Among(twos, Has) ELSE {}
       [] k = 12 -> IF Len(c) > 2 THEN Among(firsts, Has) ELSE {}

Strategies == 1..12
Holding(hint, maps) == {k \in Strategies : Strategy(k, hint, maps) # {}}
Lowest(S) == CHOOSE k \in S : \A j \in S : k <= j

\* C10: the matcher returns a slug selected by the lowest-numbered strategy
\* whose condition holds, and returns nothing exactly when none holds.
C10_CascadePriority ==
  Matched =>
    LET holding == Holding(call.hint, call.dm.maps)
    IN IF holding = {} THEN call.out = None
       ELSE /\ IsSome(call.out)
            /\ Unwrap(call.out) \in Strategy(Lowest(holding), call.hint, call.dm.maps)

\* C12: with an entity named "Raiden Shogun" in the index, the matcher given
\* the scenario hint returns that entity's slug, and strategy 3 (the cleaned
\* hint equals a full name) is the one that makes the match.
C12_ScenarioMatchedByCleanedName ==
  (Matched /\ call.hint = H_Raiden_Shogun_v2_DISABLED
           /\ \E e \in Entities : e.name = N_Raiden_Shogun) =>
    /\ call.out = Some(S_raiden_shogun)
    /\ Lowest(Holding(call.hint, call.dm.maps)) = 3

\* C22: for a hint and a taxonomy, find_entity_slug_from_hint returns the
\* same slug on every index built from that taxonomy.
C22_SameSlugOnEveryIndex ==
  Matched => \A d \in fetch_deduction_maps(taxonomy) :
               find_entity_slug_from_hint(call.hint, d) = call.out

C10_Witness ==
  /\ Matched
  /\ LET holding == Holding(call.hint, call.dm.maps)
     IN /\ holding # {} /\ Lowest(holding) > 1
        /\ IsSome(call.out)
        /\ Unwrap(call.out) \in Strategy(Lowest(holding), call.hint, call.dm.maps)
        /\ \E j \in holding : Unwrap(call.out) \notin Strategy(j, call.hint, call.dm.maps)

(***************************************************************************)
(* Stored paths.  A stored folder_name is the sequence of its segments; a   *)
(* path joined with an empty final segment keeps that empty segment in the  *)
(* stored text (a trailing separator), which PathBuf::from drops again.     *)
(***************************************************************************)
PathBuf_from(folder_name) == SelectSeq(folder_name, LAMBDA n : n # <<>>)

\* a variant of the disabled form with the marker written without its underscore
full_path_without_underscore(clean) == Parent(clean) \o <<DISABLED_WORD \o FileName(clean)>>

full_path_if_enabled(clean) == clean
full_path_if_disabled(clean) == Parent(clean) \o <<DISABLED_PREFIX \o FileName(clean)>>

AssetIds == {a.id : a \in assets}
Row(id) == CHOOSE a \in assets : a.id = id

\* the entity and category rows an asset row joins to
EntityById(id) ==
  LET es == {taxonomy.entities[i] : i \in DOMAIN taxonomy.entities}
  IN CHOOSE e \in es : e.id = id
EntityBySlug(slug) ==
  LET es == {taxonomy.entities[i] : i \in DOMAIN taxonomy.entities}
  IN IF \E e \in es : e.slug = slug THEN Some(CHOOSE e \in es : e.slug = slug) ELSE None
CategoryById(id) ==
  LET cs == {taxonomy.categories[i] : i \in DOMAIN taxonomy.categories}
  IN CHOOSE c \in cs : c.id = id

\* fn get_asset_location_info
get_asset_location_info(id) ==
  IF id \in AssetIds
  THEN LET a == Row(id)
           e == EntityById(a.entity_id)
       IN Some([ id |-> a.id, clean_relative_path |-> a.folder_name,
                 entity_id |-> a.entity_id,
                 category_slug |-> CategoryById(e.category_id).slug,
                 entity_slug |-> e.slug ])
  ELSE None

(***************************************************************************)
(* The directory walk.  The walker keeps a stack of open directory          *)
(* listings.  A listing is [dir, at, pending]: the path the directory was   *)
(* opened under, the path it has now, and the entries not yet returned.     *)
(* What a listing returns of entries that are added to or removed from its  *)
(* directory while it is open is left to the platform.                      *)
(***************************************************************************)
OpenDir(d, p) == [dir |-> p, at |-> p, pending |-> Children(d, p)]

\* the stack once the exhausted listings on top of it are closed
RECURSIVE Live(_)
Live(stack) ==
  IF stack = <<>> THEN stack
  ELSE IF stack[Len(stack)].pending = {} THEN Live(SubSeq(stack, 1, Len(stack) - 1))
  ELSE stack

\* the open listings after directories have appeared at the paths added;
\* listed tells whether the listings of their parents return the new names
Created(stack, added, listed) ==
  [i \in DOMAIN stack |->
     LET f == stack[i]
     IN IF listed
        THEN [f EXCEPT !.pending = @ \cup {f.dir \o <<FileName(n)>> :
                                             n \in {a \in added : Len(a) >= 1 /\ Parent(a) = f.at}}]
        ELSE f]

\* the open listings after the directory at from has been renamed to to
Renamed(stack, from, to, listed) ==
  Created([i \in DOMAIN stack |->
             IF IsPrefix(from, stack[i].at)
             THEN [stack[i] EXCEPT !.at = to \o Drop(stack[i].at, Len(from))]
             ELSE stack[i]],
          {to}, listed)

\* a variant of the check that finds no marker malformed
never_needs_rename(filename_str) == FALSE

NeedsRename(filename_str) ==
  starts_with(filename_str, DISABLED_WORD) /\ ~starts_with(filename_str, DISABLED_PREFIX)

\* the clean relative path the scan stores for the folder at path p
relative_path_to_store(p) ==
  Parent(p) \o <<strip_prefix_or(FileName(p), DISABLED_PREFIX)>>

\* a change made by anything but the scan itself is noted on the scan's record
Disturbed(sc) == IF sc.pc = "idle" THEN sc ELSE [sc EXCEPT !.disturbed = TRUE]

(***************************************************************************)
(* async fn scan_mods_directory, in steps: the preparation, the start of    *)
(* the blocking task, one step per entry the walker returns, the pruning,   *)
(* and the handling of the task's result.                                   *)
(***************************************************************************)
MaxScans == 3

SCAN_PROGRESS_EVENT == "scan://progress"
SCAN_COMPLETE_EVENT == "scan://complete"
SCAN_ERROR_EVENT == "scan://error"
PRUNING_START_EVENT == "prune://start"
PRUNING_PROGRESS_EVENT == "prune://progress"
PRUNING_COMPLETE_EVENT == "prune://complete"

\* the connections to the database: the one DbState holds behind its mutex,
\* and the one the scan task opens for itself
SHARED_CONNECTION == "DbState"
TASK_CONNECTION == "scan_task"

\* app_handle.emit_all
Emit(sc, event) == [sc EXCEPT !.events = Append(@, event)]

\* a variant of the progress payload that reports one folder more
ScanProgress_one_more(processed, total) == [processed |-> processed + 1, total |-> total]

\* the payload of a scan progress event
ScanProgress(processed, total) == [processed |-> processed, total |-> total]

\* app_handle.emit_all of a scan progress event
EmitProgress(sc, processed) ==
  [sc EXCEPT !.events = Append(@, SCAN_PROGRESS_EVENT),
             !.progress = Append(@, ScanProgress(processed, sc.total))]

\* what the preparation meets: the mods folder setting is not set, the index
\* cannot be fetched, or neither
ScanSetups == {"ok", "mods_folder_not_set", "maps_not_fetched"}

\* the folders counted for the progress total: those with an .ini file and
\* those whose marker needs repair
total_to_process(d) ==
  Cardinality({p \in DOMAIN d : /\ Len(p) >= 1
                                /\ is_dir(d, p)
                                /\ has_ini_file(d, p) \/ NeedsRename(FileName(p))})

\* preparation: the index is fetched and the progress total counted
ScanPrepare(setup) ==
  /\ scan.pc \in {"idle", "done", "failed"}
  /\ IF setup = "mods_folder_not_set"
     THEN scan' = [IdleScan EXCEPT !.pc = "failed", !.returned = "err"]
     ELSE IF ~is_dir(disk, Root)
     THEN scan' = [Emit(IdleScan, SCAN_ERROR_EVENT) EXCEPT !.pc = "failed", !.returned = "err"]
     ELSE IF setup = "maps_not_fetched"
     THEN scan' = [IdleScan EXCEPT !.pc = "failed", !.returned = "err"]
     ELSE \E dm \in fetch_deduction_maps(taxonomy) :
            scan' = [EmitProgress([IdleScan EXCEPT !.total = total_to_process(disk)], 0) EXCEPT
                       !.pc = "task",
                       !.maps = dm.maps,
                       !.iter = dm.iter,
                       !.assets0 = assets,
                       !.disk0 = disk,
                       !.second = (scan.pc = "done" /\ ~scan.disturbed),
                       !.first_errors = scan.errors_count,
                       !.refused = IF scan.pc = "done" /\ ~scan.disturbed
                                   THEN <<scan.conflicts>> \o scan.refused ELSE <<>>]
  /\ scans' = scans + 1
  /\ ret' = IF scan'.returned = "err" THEN [op |-> "scan", value |-> "err"] ELSE ret
  /\ UNCHANGED <<taxonomy, disk, assets, nextId, ops, interleaved, tog, call>>

\* the task opens a connection of its own, reads the catalogued ids and
\* paths on it and opens the mods root.  opened: the connection can be opened
ScanTaskStart(opened) ==
  /\ scan.pc = "task"
  /\ scan' = IF ~opened THEN [scan EXCEPT !.pc = "finish", !.result = "err"]
             ELSE [scan EXCEPT
                     !.pc = "walk",
                     !.conn = TASK_CONNECTION,
                     !.initial_db_assets = [id \in AssetIds |-> Row(id).folder_name],
                     !.stack = <<OpenDir(disk, Root)>>]
  /\ UNCHANGED <<taxonomy, disk, assets, nextId, scans, ops, interleaved, ret, tog, call>>

\* a variant of the assets table without the constraint on folder_name
constraint_unenforced(rows, folder_name) == FALSE

\* assets.folder_name is UNIQUE: a row may not take a folder_name that one of
\* rows holds
folder_name_taken(rows, folder_name) == \E a \in rows : a.folder_name = folder_name

\* the catalog part of the loop body, for a candidate deduced to belong to the
\* entity of id target_entity_id and stored under path: the scan record, the
\* rows and the next id that result
Catalogue(counted, target_entity_id, path) ==
  IF ~IsSome(target_entity_id)
  THEN [sc |-> [counted EXCEPT !.errors_count = @ + 1], assets |-> assets, nextId |-> nextId]
  ELSE IF \E a \in assets : a.entity_id = Unwrap(target_entity_id) /\ a.folder_name = path
  THEN [sc |-> [counted EXCEPT !.found_asset_ids =
                  @ \cup {a.id : a \in {b \in assets : /\ b.entity_id = Unwrap(target_entity_id)
                                                       /\ b.folder_name = path}}],
        assets |-> assets, nextId |-> nextId]
  ELSE IF folder_name_taken(assets, path)
  THEN [sc |-> [counted EXCEPT !.conflicts = @ \cup {path}],
        assets |-> assets, nextId |-> nextId]
  ELSE [sc |-> [counted EXCEPT !.mods_added_count = @ + 1,
                               !.found_asset_ids = @ \cup {nextId}],
        assets |-> assets \cup {[id |-> nextId, entity_id |-> Unwrap(target_entity_id),
                                 folder_name |-> path]},
        nextId |-> nextId + 1]

\* the deduction and catalog part of the loop body, for the candidate at cur
\* on disk d
ProcessCandidate(sc, d, cur, dm) ==
  Catalogue(EmitProgress([sc EXCEPT !.processed_count = @ + 1,
                                   !.processed_mod_paths = @ \cup {cur}],
                         sc.processed_count + 1),
            MapGet(dm.maps.entity_slug_to_id, deduce_mod_info_v2(d, cur, dm)),
            relative_path_to_store(cur))

\* one entry q of the listing on top of the stack.  ok: the rename of a
\* malformed marker succeeds; listed: the listing of the parent returns the
\* repaired name as a new entry; seen: an entry no longer in its directory
\* is still returned
ScanStep(q, ok, listed, seen) ==
  /\ scan.pc = "walk"
  /\ Live(scan.stack) # <<>>
  /\ LET stack0 == Live(scan.stack)
         top == stack0[Len(stack0)]
         stack1 == [stack0 EXCEPT ![Len(stack0)].pending = @ \ {q}]
         in_directory == is_dir(disk, top.at \o <<FileName(q)>>)
         dm == [maps |-> scan.maps, iter |-> scan.iter]
         new_path == Parent(q) \o <<DISABLED_PREFIX \o strip_prefix_or(FileName(q), DISABLED_WORD)>>
         needs_rename == NeedsRename(FileName(q))
         renamed == needs_rename /\ ok /\ CanRename(disk, q, new_path)
         disk1 == IF renamed THEN Rename(disk, q, new_path) ELSE disk
         current_path_for_processing == IF renamed THEN new_path ELSE q
         Walk(st) == IF renamed THEN Renamed(st, q, new_path, listed) ELSE st
         sc0 == IF needs_rename THEN EmitProgress(scan, scan.processed_count) ELSE scan
         sc1 == IF renamed THEN [sc0 EXCEPT !.renamed_count = @ + 1] ELSE sc0
     IN /\ q \in top.pending
        /\ IF ~in_directory /\ ~seen
           THEN /\ scan' = [scan EXCEPT !.stack = stack1]
                /\ UNCHANGED <<disk, assets, nextId>>
           ELSE IF ~is_dir(disk, q)
           THEN /\ scan' = [scan EXCEPT !.stack = stack1, !.errors_count = @ + 1]
                /\ UNCHANGED <<disk, assets, nextId>>
           ELSE IF q \in scan.processed_mod_paths
           THEN /\ scan' = [scan EXCEPT !.stack = Append(stack1, OpenDir(disk, q))]
                /\ UNCHANGED <<disk, assets, nextId>>
           ELSE IF needs_rename /\ ~renamed
           THEN /\ scan' = [sc0 EXCEPT !.stack = stack1, !.errors_count = @ + 1]
                /\ UNCHANGED <<disk, assets, nextId>>
           ELSE IF has_ini_file(disk1, current_path_for_processing)
           THEN \E done \in {ProcessCandidate(sc1, disk1, current_path_for_processing, dm)} :
                  /\ scan' = [done.sc EXCEPT !.stack = Walk(stack1)]
                  /\ disk' = disk1
                  /\ assets' = done.assets
                  /\ nextId' = done.nextId
           ELSE /\ scan' = [sc1 EXCEPT !.stack = Walk(Append(stack1, OpenDir(disk, q)))]
                /\ disk' = disk1
                /\ UNCHANGED <<assets, nextId>>
  /\ tog' = IF disk' = disk THEN tog ELSE NoTog
  /\ UNCHANGED <<taxonomy, scans, ops, interleaved, ret, call>>

\* a variant of the prune set that prunes nothing
prune_nothing(initial_db_assets, found_asset_ids) == {}

\* a variant of the prune set that holds every id read at the start
prune_all_initial(initial_db_assets, found_asset_ids) == DOMAIN initial_db_assets

\* the ids read at the start of the task that the walk did not mark found
mods_to_prune_ids(initial_db_assets, found_asset_ids) ==
  {id \in DOMAIN initial_db_assets : id \notin found_asset_ids}

ScanPrune ==
  /\ scan.pc = "walk"
  /\ Live(scan.stack) = <<>>
  /\ LET ids == mods_to_prune_ids(scan.initial_db_assets, scan.found_asset_ids)
     IN /\ assets' = {a \in assets : a.id \notin ids}
        /\ scan' = [scan EXCEPT !.pc = "finish", !.stack = <<>>, !.conn = "none",
                                !.events = IF ids = {} THEN @
                                           ELSE @ \o <<PRUNING_START_EVENT, PRUNING_PROGRESS_EVENT,
                                                        PRUNING_COMPLETE_EVENT>>,
                                !.pruned_count = Cardinality({a \in assets : a.id \in ids})]
  /\ UNCHANGED <<taxonomy, disk, nextId, scans, ops, interleaved, ret, tog, call>>

\* the task's result is handled: a success whatever the error count of the
\* walk, a failure if the task could not open its connection
ScanFinish ==
  /\ scan.pc = "finish"
  /\ scan' = IF scan.result = "ok"
             THEN [Emit(scan, SCAN_COMPLETE_EVENT) EXCEPT
                     !.pc = "done", !.maps = <<>>, !.iter = <<>>, !.returned = "ok"]
             ELSE [Emit(scan, SCAN_ERROR_EVENT) EXCEPT
                     !.pc = "failed", !.maps = <<>>, !.iter = <<>>, !.returned = "err"]
  /\ ret' = [op |-> "scan", value |-> scan'.returned]
  /\ UNCHANGED <<taxonomy, disk, assets, nextId, scans, ops, interleaved, tog, call>>

(***************************************************************************)
(* Commands and outside changes are counted as they are issued: at most     *)
(* MaxOps in all, at most MaxInterleaved of them while a scan is running.   *)
(***************************************************************************)
MaxOps == 2
MaxInterleaved == 1

ScanRunning == scan.pc \notin {"idle", "done", "failed"}

Issue ==
  /\ ops < MaxOps
  /\ ScanRunning => interleaved < MaxInterleaved
  /\ ops' = ops + 1
  /\ interleaved' = IF ScanRunning THEN interleaved + 1 ELSE interleaved

(***************************************************************************)
(* fn toggle_asset_enabled                                                  *)
(***************************************************************************)
\* a variant of the classification that reports the state the folder had
ToggleChoice_reports_old_state(d, clean) ==
  IF is_dir(d, full_path_if_enabled(clean))
  THEN [ found |-> TRUE, current_full_path |-> full_path_if_enabled(clean),
         target_full_path |-> full_path_if_disabled(clean), new_enabled_state |-> TRUE ]
  ELSE IF is_dir(d, full_path_if_disabled(clean))
  THEN [ found |-> TRUE, current_full_path |-> full_path_if_disabled(clean),
         target_full_path |-> full_path_if_enabled(clean), new_enabled_state |-> FALSE ]
  ELSE [ found |-> FALSE, current_full_path |-> <<>>, target_full_path |-> <<>>,
         new_enabled_state |-> FALSE ]

\* the state on disk of the asset with clean path clean: the path that
\* exists, the path to rename it to, and the state after the rename
ToggleChoice(d, clean) ==
  IF is_dir(d, full_path_if_enabled(clean))
  THEN [ found |-> TRUE, current_full_path |-> full_path_if_enabled(clean),
         target_full_path |-> full_path_if_disabled(clean), new_enabled_state |-> FALSE ]
  ELSE IF is_dir(d, full_path_if_disabled(clean))
  THEN [ found |-> TRUE, current_full_path |-> full_path_if_disabled(clean),
         target_full_path |-> full_path_if_enabled(clean), new_enabled_state |-> TRUE ]
  ELSE [ found |-> FALSE, current_full_path |-> <<>>, target_full_path |-> <<>>,
         new_enabled_state |-> FALSE ]

\* what the command does to the disk and what it returns.  ok: the rename
\* succeeds; listed: an open listing of the parent returns the new name
ToggleEffects(id, ok, listed) ==
  LET clean == PathBuf_from(Row(id).folder_name)
      choice == ToggleChoice(disk, clean)
      Fail == /\ ret' = [op |-> "toggle", value |-> "err"]
              /\ UNCHANGED <<disk, scan, tog>>
  IN IF id \notin AssetIds THEN Fail
     ELSE IF clean = <<>> THEN Fail
     ELSE IF ~choice.found THEN Fail
     ELSE IF ~(ok /\ CanRename(disk, choice.current_full_path, choice.target_full_path))
     THEN Fail
     ELSE /\ disk' = Rename(disk, choice.current_full_path, choice.target_full_path)
          /\ ret' = [op |-> "toggle", value |-> IF choice.new_enabled_state THEN "ok_true" ELSE "ok_false"]
          /\ scan' = [Disturbed(scan) EXCEPT
                        !.stack = Renamed(@, choice.current_full_path,
                                          choice.target_full_path, listed)]
          /\ tog' = IF tog.id = id /\ tog.count = 1
                    THEN [tog EXCEPT !.count = 2]
                    ELSE [ id |-> id, count |-> 1, clean |-> clean,
                           orig |-> choice.current_full_path,
                           dest |-> choice.target_full_path,
                           single |-> ~(is_dir(disk, full_path_if_enabled(clean))
                                        /\ is_dir(disk, full_path_if_disabled(clean))),
                           disk0 |-> disk ]

\* a variant of the command that records the new state in the stored path
toggle_storing_state(id, ok, listed) ==
  /\ Issue
  /\ ToggleEffects(id, ok, listed)
  /\ assets' = IF ret'.value = "ok_false"
               THEN {IF a.id = id
                     THEN [a EXCEPT !.folder_name = full_path_if_disabled(PathBuf_from(@))]
                     ELSE a : a \in assets}
               ELSE assets
  /\ UNCHANGED <<taxonomy, nextId, scans, call>>

toggle_asset_enabled(id, ok, listed) ==
  /\ Issue
  /\ ToggleEffects(id, ok, listed)
  /\ UNCHANGED <<taxonomy, assets, nextId, scans, call>>

(***************************************************************************)
(* fn update_asset_info.  target: the new_target_entity_slug argument;      *)
(* image: whether an image is provided and whether saving it succeeds;      *)
(* ok: the move of the folder succeeds.                                     *)
(***************************************************************************)
PreviewFile == [name |-> F_preview_png, target |-> None, type |-> None]

\* fs::write of the preview image into the folder
WriteImage(d, folder) ==
  IF \E k \in DOMAIN d[folder] : d[folder][k].name = F_preview_png THEN d
  ELSE [d EXCEPT ![folder] = Append(@, PreviewFile)]

ImageInputs == {"none", "saved", "fails"}

update_asset_info(id, target, image, ok, listed) ==
  LET current_info == Unwrap(get_asset_location_info(id))
      needs_relocation == IsSome(target) /\ Unwrap(target) # current_info.entity_slug
      new_entity == Unwrap(EntityBySlug(Unwrap(target)))
      new_category_slug == CategoryById(new_entity.category_id).slug
      clean == PathBuf_from(current_info.clean_relative_path)
      choice == ToggleChoice(disk, clean)
      current_filename_str == FileName(clean)
      mod_base_name == trim_start_matches(current_filename_str, DISABLED_PREFIX)
      new_relative_path == <<new_category_slug, Unwrap(target), mod_base_name>>
      new_filename_to_use_on_disk ==
        IF starts_with(FileName(choice.current_full_path), DISABLED_PREFIX)
        THEN DISABLED_PREFIX \o current_filename_str
        ELSE mod_base_name
      new_full_dest_path_on_disk ==
        PathBuf_from(<<new_category_slug, Unwrap(target), new_filename_to_use_on_disk>>)
      made == CreateDirAll(disk, Parent(new_full_dest_path_on_disk))
      moved == Rename(made, choice.current_full_path, new_full_dest_path_on_disk)
      can_move == ok /\ CanRename(made, choice.current_full_path, new_full_dest_path_on_disk)
      mod_folder_on_disk ==
        IF needs_relocation THEN new_full_dest_path_on_disk ELSE choice.current_full_path
      after_move == IF needs_relocation THEN moved ELSE disk
      after_image == IF image = "saved" THEN WriteImage(after_move, mod_folder_on_disk)
                     ELSE after_move
      final_entity_id == IF needs_relocation THEN new_entity.id ELSE current_info.entity_id
      final_relative_path ==
        IF needs_relocation THEN new_relative_path ELSE current_info.clean_relative_path
      Walk(d) ==
        IF d = disk THEN scan
        ELSE [Disturbed(scan) EXCEPT
                !.stack = IF needs_relocation /\ is_dir(d, new_full_dest_path_on_disk)
                              /\ ~is_dir(made, new_full_dest_path_on_disk)
                          THEN Renamed(Created(@, DOMAIN made \ DOMAIN disk, listed),
                                       choice.current_full_path,
                                       new_full_dest_path_on_disk, listed)
                          ELSE Created(@, DOMAIN d \ DOMAIN disk, listed)]
      request == [asset_id |-> id, new_target_entity_slug |-> target]
      Fail(d) == /\ ret' = [op |-> "update", value |-> "err", request |-> request]
                 /\ disk' = d
                 /\ scan' = Walk(d)
                 /\ tog' = IF d = disk THEN tog ELSE NoTog
                 /\ UNCHANGED assets
  IN /\ Issue
     /\ IF ~IsSome(get_asset_location_info(id)) THEN Fail(disk)
        ELSE IF needs_relocation /\ ~IsSome(EntityBySlug(Unwrap(target))) THEN Fail(disk)
        ELSE IF clean = <<>> THEN Fail(disk)
        ELSE IF ~choice.found THEN Fail(disk)
        ELSE IF needs_relocation /\ is_dir(made, new_full_dest_path_on_disk) THEN Fail(made)
        ELSE IF needs_relocation /\ ~can_move THEN Fail(made)
        ELSE IF image = "fails" THEN Fail(after_move)
        ELSE IF folder_name_taken({a \in assets : a.id # id}, final_relative_path)
        THEN Fail(after_image)
        ELSE /\ ret' = [op |-> "update", value |-> "ok", request |-> request]
             /\ disk' = after_image
             /\ assets' = {IF a.id = id
                           THEN [a EXCEPT !.entity_id = final_entity_id,
                                          !.folder_name = final_relative_path]
                           ELSE a : a \in assets}
             /\ scan' = IF assets' = assets THEN Walk(after_image)
                        ELSE Disturbed(Walk(after_image))
             /\ tog' = IF after_image = disk THEN tog ELSE NoTog
     /\ UNCHANGED <<taxonomy, nextId, scans, call>>

(***************************************************************************)
(* fn delete_asset.  ok: removing the folder succeeds.                      *)
(***************************************************************************)
delete_asset(id, ok) ==
  LET asset_info == Unwrap(get_asset_location_info(id))
      clean == PathBuf_from(asset_info.clean_relative_path)
      choice == ToggleChoice(disk, clean)
      Fail == /\ ret' = [op |-> "delete", value |-> "err"]
              /\ UNCHANGED <<disk, assets, scan, tog>>
  IN /\ Issue
     /\ IF ~IsSome(get_asset_location_info(id)) THEN Fail
        ELSE IF clean = <<>> THEN Fail
        ELSE IF choice.found /\ ~ok THEN Fail
        ELSE /\ disk' = IF choice.found THEN RemoveDirAll(disk, choice.current_full_path)
                        ELSE disk
             /\ assets' = {a \in assets : a.id # id}
             /\ ret' = [op |-> "delete", value |-> "ok"]
             /\ scan' = Disturbed(scan)
             /\ tog' = IF choice.found THEN NoTog ELSE tog
     /\ UNCHANGED <<taxonomy, nextId, scans, call>>

(***************************************************************************)
(* fn import_archive.  The archive holds ArchiveFiles at its root and all   *)
(* of it is extracted; no image and no preset is given.  outcome: the       *)
(* extraction fails, the commit fails, or both succeed.                     *)
(***************************************************************************)
ArchiveFiles == <<[name |-> F_mod_ini, target |-> None, type |-> None]>>

\* str::replace of one character by a string, over the whole string
RECURSIVE replace(_, _, _)
replace(s, c, by) ==
  IF s = <<>> THEN <<>>
  ELSE (IF Head(s) = c THEN by ELSE <<Head(s)>>) \o replace(Tail(s), c, by)

target_mod_folder_name(mod_name) ==
  replace(replace(replace(replace(trim(mod_name), " ", <<"_">>), ".", <<"_">>), "'", <<>>),
          "\"", <<>>)

\* the files of an archive written into the folder, over those of the same name
ExtractInto(d, folder, files) ==
  [d EXCEPT ![folder] =
     SelectSeq(@, LAMBDA f : \A k \in DOMAIN files : files[k].name # f.name) \o files]

ImportOutcomes == {"ok", "extract_fails", "commit_fails"}

\* the error of an import whose target entity and path already have a row
ENTRY_EXISTS == "Database entry already exists. Aborting."

import_archive(target_entity_slug, mod_name, outcome, listed) ==
  LET entity == Unwrap(EntityBySlug(target_entity_slug))
      target_category_slug == CategoryById(entity.category_id).slug
      final_mod_dest_path ==
        <<target_category_slug, target_entity_slug, target_mod_folder_name(mod_name)>>
      made == CreateDirAll(disk, final_mod_dest_path)
      extracted == ExtractInto(made, final_mod_dest_path, ArchiveFiles)
      removed == RemoveDirAll(made, final_mod_dest_path)
      relative_path_for_db == final_mod_dest_path
      Walk(d) ==
        IF d = disk THEN scan
        ELSE [Disturbed(scan) EXCEPT !.stack = Created(@, DOMAIN d \ DOMAIN disk, listed)]
      Fail(d, message) ==
                 /\ ret' = [op |-> "import", value |-> "err", message |-> message]
                 /\ disk' = d
                 /\ scan' = Walk(d)
                 /\ tog' = IF d = disk THEN tog ELSE NoTog
                 /\ UNCHANGED <<assets, nextId>>
  IN /\ Issue
     /\ IF trim(mod_name) = <<>> THEN Fail(disk, "Mod Name cannot be empty.")
        ELSE IF trim(target_entity_slug) = <<>> THEN Fail(disk, "Target Entity must be selected.")
        ELSE IF ~IsSome(EntityBySlug(target_entity_slug))
        THEN Fail(disk, "Target entity not found.")
        ELSE IF target_mod_folder_name(mod_name) = <<>>
        THEN Fail(disk, "Mod Name results in invalid folder name.")
        ELSE IF outcome = "extract_fails" THEN Fail(removed, "Extraction failed.")
        ELSE IF \E a \in assets : a.entity_id = entity.id /\ a.folder_name = relative_path_for_db
        THEN Fail(removed, ENTRY_EXISTS)
        ELSE IF folder_name_taken(assets, relative_path_for_db)
        THEN Fail(removed, "Failed add imported mod to database.")
        ELSE IF outcome = "commit_fails"
        THEN Fail(removed, "Failed to commit import transaction.")
        ELSE /\ ret' = [op |-> "import", value |-> "ok", message |-> ""]
             /\ disk' = extracted
             /\ assets' = assets \cup {[id |-> nextId, entity_id |-> entity.id,
                                         folder_name |-> relative_path_for_db]}
             /\ nextId' = nextId + 1
             /\ scan' = Disturbed(Walk(extracted))
             /\ tog' = NoTog
     /\ UNCHANGED <<taxonomy, scans, call>>

(***************************************************************************)
(* The user's own changes to the mods directory, made outside the           *)
(* application: a mod folder is deleted, or is disabled by hand with the    *)
(* marker typed without its underscore.                                     *)
(***************************************************************************)
UserDeletes(p) ==
  /\ Issue
  /\ has_ini_file(disk, p)
  /\ disk' = RemoveDirAll(disk, p)
  /\ scan' = Disturbed(scan)
  /\ tog' = NoTog
  /\ UNCHANGED <<taxonomy, assets, nextId, scans, ret, call>>

UserMarksDisabled(p, listed) ==
  LET to == Parent(p) \o <<DISABLED_WORD \o FileName(p)>>
  IN /\ Issue
     /\ has_ini_file(disk, p)
     /\ ~starts_with(FileName(p), DISABLED_WORD)
     /\ ~is_dir(disk, to)
     /\ disk' = Rename(disk, p, to)
        /\ scan' = [Disturbed(scan) EXCEPT !.stack = Renamed(@, p, to, listed)]
     /\ tog' = NoTog
     /\ UNCHANGED <<taxonomy, assets, nextId, scans, ret, call>>

(***************************************************************************)
(* The application over a mods directory holding at most MaxFolders of the  *)
(* mod folders below.                                                       *)
(***************************************************************************)
MaxFolders == 1

PlainIni == [name |-> F_mod_ini, target |-> None, type |-> None]

ModFolders ==
  { [path |-> <<D_KleeMod>>, files |-> <<PlainIni>>],
    [path |-> <<DISABLED_WORD \o D_KleeMod>>, files |-> <<PlainIni>>],
    [path |-> <<DISABLED_PREFIX \o D_KleeMod>>, files |-> <<PlainIni>>],
    [path |-> <<DISABLED_PREFIX \o DISABLED_PREFIX \o D_KleeMod>>, files |-> <<PlainIni>>],
    [path |-> <<S_weapons, D_Bow>>, files |-> <<PlainIni>>] }

MakeDisk(folders) ==
  [q \in UNION {{SubSeq(m.path, 1, k) : k \in 0..Len(m.path)} : m \in folders} \cup {Root} |->
     IF \E m \in folders : m.path = q THEN (CHOOSE m \in folders : m.path = q).files
     ELSE <<>>]

InitialDisks == {MakeDisk(S) : S \in {T \in SUBSET ModFolders : Cardinality(T) <= MaxFolders}}

Init ==
  /\ \E d \in InitialDisks : Installed(GameTaxonomy, d)
  /\ call = NoCall

\* the outcomes to consider for a step of the platform: both where the step
\* can happen, one where it cannot
Outcomes(possible) == IF possible THEN BOOLEAN ELSE {TRUE}

\* the asset ids a request may carry: those catalogued, and one that is not
RequestIds == AssetIds \cup {nextId}

RelocationTargets == {None} \cup {Some(taxonomy.entities[i].slug) : i \in DOMAIN taxonomy.entities}

\* the entities an import may name: those of the taxonomy, and none
ImportTargets == {taxonomy.entities[i].slug : i \in DOMAIN taxonomy.entities} \cup {<<>>}

\* the mod names an import may carry
ImportNames ==
  { D_KleeMod,
    DISABLED_PREFIX \o <<"K","l","e","e"," ","M","o","d">> }

Next ==
  \/ scans < MaxScans /\ \E setup \in ScanSetups : ScanPrepare(setup)
  \/ \E opened \in BOOLEAN : ScanTaskStart(opened)
  \/ \E q \in UNION {scan.stack[i].pending : i \in DOMAIN scan.stack} :
       \E ok, listed \in Outcomes(NeedsRename(FileName(q))) :
         \E seen \in Outcomes(~is_dir(disk, q)) : ScanStep(q, ok, listed, seen)
  \/ ScanPrune
  \/ ScanFinish
  \/ \E id \in RequestIds : \E ok \in BOOLEAN : \E listed \in Outcomes(ScanRunning) :
       toggle_asset_enabled(id, ok, listed)
  \/ \E id \in RequestIds : \E target \in RelocationTargets : \E image \in ImageInputs :
       \E ok \in BOOLEAN : \E listed \in Outcomes(ScanRunning) :
         update_asset_info(id, target, image, ok, listed)
  \/ \E id \in RequestIds : \E ok \in BOOLEAN : delete_asset(id, ok)
  \/ \E p \in DOMAIN disk : UserDeletes(p)
  \/ \E p \in DOMAIN disk : \E listed \in Outcomes(ScanRunning) : UserMarksDisabled(p, listed)

Spec == Init /\ [][Next]_vars

(***************************************************************************)
(* The catalog under the operations that write it: scans, archive imports,  *)
(* edits and relocations, and deletions.                                    *)
(***************************************************************************)
InitCatalog ==
  /\ \E d \in InitialDisks : Installed(GameTaxonomy, d)
  /\ call = NoCall

MaxCatalogScans == 1

NextCatalog ==
  \/ scans < MaxCatalogScans /\ \E setup \in ScanSetups : ScanPrepare(setup)
  \/ \E opened \in BOOLEAN : ScanTaskStart(opened)
  \/ \E q \in UNION {scan.stack[i].pending : i \in DOMAIN scan.stack} :
       \E ok, listed \in Outcomes(NeedsRename(FileName(q))) :
         \E seen \in Outcomes(~is_dir(disk, q)) : ScanStep(q, ok, listed, seen)
  \/ ScanPrune
  \/ ScanFinish
  \/ \E target \in ImportTargets : \E mod_name \in ImportNames :
       \E outcome \in ImportOutcomes : \E listed \in Outcomes(ScanRunning) :
         import_archive(target, mod_name, outcome, listed)
  \/ \E id \in RequestIds : \E target \in RelocationTargets : \E image \in ImageInputs :
       \E ok \in BOOLEAN : \E listed \in Outcomes(ScanRunning) :
         update_asset_info(id, target, image, ok, listed)
  \/ \E id \in RequestIds : \E ok \in BOOLEAN : delete_asset(id, ok)

SpecCatalog == InitCatalog /\ [][NextCatalog]_vars

(***************************************************************************)
(* The scan alone, over mods directories with folders inside mod folders,   *)
(* folders with a malformed marker, and several mod folders side by side.   *)
(***************************************************************************)
WalkDisks ==
  { MakeDisk({[path |-> <<D_KleeMod>>, files |-> <<PlainIni>>],
              [path |-> <<D_KleeMod, D_Bow>>, files |-> <<PlainIni>>]}),
    MakeDisk({[path |-> <<DISABLED_WORD \o D_KleeMod>>, files |-> <<PlainIni>>],
              [path |-> <<DISABLED_WORD \o D_KleeMod, D_Bow>>, files |-> <<PlainIni>>]}),
    MakeDisk({[path |-> <<DISABLED_WORD \o D_KleeMod, D_Bow>>, files |-> <<PlainIni>>]}),
    MakeDisk({[path |-> <<DISABLED_WORD \o D_KleeMod>>, files |-> <<PlainIni>>],
              [path |-> <<DISABLED_WORD \o D_KleeMod, D_Bow>>, files |-> <<PlainIni>>],
              [path |-> <<S_weapons, D_Bow>>, files |-> <<PlainIni>>]}),
    MakeDisk({[path |-> <<D_KleeMod>>, files |-> <<PlainIni>>],
              [path |-> <<DISABLED_PREFIX \o D_Bow>>, files |-> <<PlainIni>>]}) }

InitWalk ==
  /\ \E d \in WalkDisks : Installed(GameTaxonomy, d)
  /\ call = NoCall

NextWalk ==
  \/ scans < MaxScans /\ \E setup \in ScanSetups : ScanPrepare(setup)
  \/ \E opened \in BOOLEAN : ScanTaskStart(opened)
  \/ \E q \in UNION {scan.stack[i].pending : i \in DOMAIN scan.stack} :
       \E ok, listed \in Outcomes(NeedsRename(FileName(q))) :
         \E seen \in Outcomes(~is_dir(disk, q)) : ScanStep(q, ok, listed, seen)
  \/ ScanPrune
  \/ ScanFinish

SpecWalk == InitWalk /\ [][NextWalk]_vars

(***************************************************************************)
(* Scan after scan over a mods directory nothing else changes, with folders *)
(* whose stored path is catalogued or claimed under another entity: a mod   *)
(* imported for an entity other than the one its folder name deduces, and   *)
(* an enabled and a disabled folder of the same name whose config files     *)
(* name different entities.  Imports come before the first scan.            *)
(***************************************************************************)
MaxConvergeScans == 4

ConvergeDisks ==
  { EmptyDisk,
    MakeDisk({[path |-> <<D_Bow>>,
               files |-> <<[name |-> F_mod_ini, target |-> Some(N_Klee), type |-> None]>>],
              [path |-> <<DISABLED_PREFIX \o D_Bow>>, files |-> <<PlainIni>>]}) }

InitConverge ==
  /\ \E d \in ConvergeDisks : Installed(GameTaxonomy, d)
  /\ call = NoCall

NextConverge ==
  \/ scans < MaxConvergeScans /\ ScanPrepare("ok")
  \/ ScanTaskStart(TRUE)
  \/ \E q \in UNION {scan.stack[i].pending : i \in DOMAIN scan.stack} :
       \E ok, listed \in Outcomes(NeedsRename(FileName(q))) :
         \E seen \in Outcomes(~is_dir(disk, q)) : ScanStep(q, ok, listed, seen)
  \/ ScanPrune
  \/ ScanFinish
  \/ scans = 0 /\ \E target \in ImportTargets : \E mod_name \in ImportNames :
                     \E outcome \in ImportOutcomes : import_archive(target, mod_name, outcome, TRUE)

SpecConverge == InitConverge /\ [][NextConverge]_vars

(***************************************************************************)
(* Two scan_mods_directory runs over the same mods directory, their steps   *)
(* interleaved in any order.  scan is the run whose thread has the          *)
(* processor, call.waiting the other; each has its own index, walker,       *)
(* snapshot of the catalogued ids and found set, and both write the same    *)
(* assets table.  The directory holds no malformed marker and nothing but   *)
(* the runs is active.  The runs start from catalogs earlier imports and    *)
(* deletions of folders leave: empty, a row whose folder is present, a row  *)
(* whose folder is gone, a row for an entity other than the one deduced     *)
(* from the folder.  call.start is the catalog before either run.  The     *)
(* second run is issued before the first has returned.                      *)
(***************************************************************************)
ImportedKleeMod == <<S_characters, S_klee, D_KleeMod>>
ImportedForOther == <<S_characters, S_characters \o OTHER_ENTITY_SUFFIX, D_KleeMod>>

ConcurrentStarts ==
  { [disk |-> MakeDisk({[path |-> <<D_KleeMod>>, files |-> <<PlainIni>>],
                        [path |-> <<DISABLED_PREFIX \o D_Bow>>, files |-> <<PlainIni>>]}),
     assets |-> {}],
    [disk |-> MakeDisk({[path |-> ImportedKleeMod, files |-> <<PlainIni>>]}),
     assets |-> {[id |-> 1, entity_id |-> 2, folder_name |-> ImportedKleeMod]}],
    [disk |-> MakeDisk({[path |-> <<S_characters, S_klee>>, files |-> <<>>]}),
     assets |-> {[id |-> 1, entity_id |-> 2, folder_name |-> ImportedKleeMod]}],
    [disk |-> MakeDisk({[path |-> ImportedForOther, files |-> <<PlainIni>>]}),
     assets |-> {[id |-> 1, entity_id |-> 1, folder_name |-> ImportedForOther]}] }

NoScans == [fn |-> "scans", waiting |-> IdleScan, start |-> {}]

InitConcurrent ==
  \E st \in ConcurrentStarts :
    /\ taxonomy = GameTaxonomy
    /\ disk = st.disk
    /\ assets = st.assets
    /\ nextId = Cardinality(st.assets) + 1
    /\ scan = IdleScan
    /\ scans = 0
    /\ ops = 0
    /\ interleaved = 0
    /\ ret = NoRet
    /\ tog = NoTog
    /\ call = [NoScans EXCEPT !.start = st.assets]

\* the thread of the other run gets the processor
Yield ==
  /\ call.fn = "scans"
  /\ scan' = call.waiting
  /\ call' = [call EXCEPT !.waiting = scan]
  /\ UNCHANGED <<taxonomy, disk, assets, nextId, scans, ops, interleaved, ret, tog>>

NextConcurrent ==
  \/ scan.pc = "idle" /\ call.waiting.pc \notin {"done", "failed"} /\ ScanPrepare("ok")
  \/ ScanTaskStart(TRUE)
  \/ \E q \in UNION {scan.stack[i].pending : i \in DOMAIN scan.stack} :
       \E ok, listed \in Outcomes(NeedsRename(FileName(q))) :
         \E seen \in Outcomes(~is_dir(disk, q)) : ScanStep(q, ok, listed, seen)
  \/ ScanPrune
  \/ ScanFinish
  \/ Yield

SpecConcurrent == InitConcurrent /\ [][NextConcurrent]_vars

(***************************************************************************)
(* fn create_preset, fn apply_preset.  The presets and preset_assets tables *)
(* hold at most one preset; call holds its rows (asset id and the state to  *)
(* bring the asset to), and the running apply_preset: the rows it fetched,  *)
(* the assets its loop has been through, those it renamed, the ids its      *)
(* error messages name,                                                     *)
(* the events it emitted and what it returned.                              *)
(***************************************************************************)
PRESET_APPLY_START_EVENT == "preset://apply_start"
PRESET_APPLY_PROGRESS_EVENT == "preset://apply_progress"
PRESET_APPLY_COMPLETE_EVENT == "preset://apply_complete"
PRESET_APPLY_ERROR_EVENT == "preset://apply_error"

NoPreset ==
  [ fn |-> "apply_preset", created |-> FALSE, preset_assets |-> {},
    pc |-> "idle", fetched |-> {}, attempted |-> {}, renamed |-> {}, errors |-> <<>>,
    events |-> <<>>, returned |-> "none", applies |-> 0,
    seen_disk |-> <<>>, disturbed |-> FALSE ]

PresetNames == {<<" ">>, <<"P">>}

\* the state of every catalogued asset whose folder is on disk is saved
create_preset(name) ==
  /\ call.fn = "apply_preset"
  /\ IF trim(name) = <<>> \/ call.created
     THEN /\ ret' = [op |-> "create_preset", value |-> "err"]
          /\ UNCHANGED call
     ELSE /\ ret' = [op |-> "create_preset", value |-> "ok"]
          /\ call' = [call EXCEPT
               !.created = TRUE,
               !.preset_assets =
                 { [asset_id |-> a.id,
                    is_enabled |-> is_dir(disk, full_path_if_enabled(a.folder_name))] :
                   a \in {b \in assets :
                            /\ b.folder_name # <<>>
                            /\ \/ is_dir(disk, full_path_if_enabled(b.folder_name))
                               \/ is_dir(disk, full_path_if_disabled(b.folder_name))} }]
  /\ UNCHANGED <<taxonomy, disk, assets, nextId, scan, scans, ops, interleaved, tog>>

MaxApplies == 1

\* call.seen_disk is the mods directory as the latest step of apply_preset
\* saw or left it, call.disturbed whether a later step found it changed by
\* something else.

\* the rows of the preset joined with the assets table
preset_assets_to_apply ==
  { [asset_id |-> pa.asset_id, desired_is_enabled |-> pa.is_enabled,
     clean_relative_path |-> Row(pa.asset_id).folder_name] :
    pa \in {x \in call.preset_assets : x.asset_id \in AssetIds} }

\* a variant of the loop that ends at the first error
remaining_until_error(fetched, attempted, errors) ==
  IF errors # <<>> THEN {} ELSE {r \in fetched : r.asset_id \notin attempted}

\* the rows the loop has yet to go through
remaining(fetched, attempted, errors) == {r \in fetched : r.asset_id \notin attempted}

\* the base path is read, the rows fetched and the start event emitted
PresetFetch(setup) ==
  /\ call.fn = "apply_preset"
  /\ call.pc \in {"idle", "done", "failed"}
  /\ call.applies < MaxApplies
  /\ call' = IF setup = "mods_folder_not_set"
             THEN [call EXCEPT !.pc = "failed", !.fetched = {}, !.attempted = {}, !.renamed = {},
                               !.errors = <<>>, !.events = <<>>, !.returned = "err",
                               !.applies = @ + 1, !.seen_disk = disk, !.disturbed = FALSE]
             ELSE [call EXCEPT !.pc = "apply", !.fetched = preset_assets_to_apply,
                               !.attempted = {}, !.renamed = {}, !.errors = <<>>,
                               !.events = <<PRESET_APPLY_START_EVENT>>,
                               !.returned = "none", !.applies = @ + 1,
                               !.seen_disk = disk, !.disturbed = FALSE]
  /\ ret' = IF setup = "mods_folder_not_set"
            THEN [op |-> "apply_preset", value |-> "err"] ELSE ret
  /\ UNCHANGED <<taxonomy, disk, assets, nextId, scan, scans, ops, interleaved, tog>>

\* a variant of the comparison that never asks for a rename
state_never_differs(current_is_enabled, desired_is_enabled) == FALSE

\* the folder is renamed when its state is not the one the preset records
state_differs(current_is_enabled, desired_is_enabled) ==
  current_is_enabled # desired_is_enabled

\* one round of the loop, for row r.  ok: the rename succeeds; listed: a
\* running scan's open listing returns the new name
PresetStep(r, ok, listed) ==
  /\ call.fn = "apply_preset"
  /\ call.pc = "apply"
  /\ r \in remaining(call.fetched, call.attempted, call.errors)
  /\ LET clean == r.clean_relative_path
         enabled == full_path_if_enabled(clean)
         disabled == full_path_if_disabled(clean)
         found == is_dir(disk, enabled) \/ is_dir(disk, disabled)
         current_is_enabled == is_dir(disk, enabled)
         source_path == IF current_is_enabled THEN enabled ELSE disabled
         target_path == IF r.desired_is_enabled THEN enabled ELSE disabled
         rename == clean # <<>> /\ found
                   /\ state_differs(current_is_enabled, r.desired_is_enabled)
         renamed == rename /\ ok /\ CanRename(disk, source_path, target_path)
         failed == clean = <<>> \/ ~found \/ (rename /\ ~renamed)
     IN /\ call' = [call EXCEPT
                      !.attempted = @ \cup {r.asset_id},
                      !.renamed = IF renamed THEN @ \cup {r.asset_id} ELSE @,
                      !.events = Append(@, PRESET_APPLY_PROGRESS_EVENT),
                      !.errors = IF failed THEN Append(@, r.asset_id) ELSE @,
                      !.seen_disk = IF renamed THEN Rename(disk, source_path, target_path)
                                    ELSE disk,
                      !.disturbed = @ \/ disk # call.seen_disk]
        /\ disk' = IF renamed THEN Rename(disk, source_path, target_path) ELSE disk
        /\ scan' = IF renamed
                   THEN [Disturbed(scan) EXCEPT
                           !.stack = Renamed(@, source_path, target_path, listed)]
                   ELSE scan
        /\ tog' = IF renamed THEN NoTog ELSE tog
  /\ UNCHANGED <<taxonomy, assets, nextId, scans, ops, interleaved, ret>>

\* after the loop: the complete event and Ok, or the error event and Err
PresetFinish ==
  /\ call.fn = "apply_preset"
  /\ call.pc = "apply"
  /\ remaining(call.fetched, call.attempted, call.errors) = {}
  /\ call' = IF call.errors = <<>>
             THEN [call EXCEPT !.pc = "done", !.returned = "ok",
                               !.events = Append(@, PRESET_APPLY_COMPLETE_EVENT),
                               !.disturbed = @ \/ disk # call.seen_disk]
             ELSE [call EXCEPT !.pc = "done", !.returned = "err",
                               !.events = Append(@, PRESET_APPLY_ERROR_EVENT),
                               !.disturbed = @ \/ disk # call.seen_disk]
  /\ ret' = [op |-> "apply_preset", value |-> call'.returned]
  /\ UNCHANGED <<taxonomy, disk, assets, nextId, scan, scans, ops, interleaved, tog>>

(***************************************************************************)
(* The other commands that derive the state of an asset from the mods       *)
(* directory: fn get_assets_for_entity, fn get_dashboard_stats,             *)
(* fn overwrite_preset, fn add_asset_to_presets.                            *)
(***************************************************************************)
\* a variant of the helper that looks at the disabled path
disabled_path_absent(d, clean) == ~is_dir(d, full_path_if_disabled(clean))

\* fn get_current_asset_enabled_state: only the enabled path is looked at
get_current_asset_enabled_state(d, clean) == is_dir(d, full_path_if_enabled(clean))

\* the state and path get_assets_for_entity reports for the asset stored
\* under clean, None when it skips the asset
reported_asset(d, clean) ==
  IF clean = <<>> THEN None
  ELSE IF is_dir(d, full_path_if_enabled(clean))
  THEN Some([is_enabled |-> TRUE, folder_name |-> clean])
  ELSE IF is_dir(d, full_path_if_disabled(clean))
  THEN Some([is_enabled |-> FALSE, folder_name |-> full_path_if_disabled(clean)])
  ELSE None

get_assets_for_entity(entity_slug) ==
  /\ Issue
  /\ ret' = IF ~IsSome(EntityBySlug(entity_slug))
            THEN [op |-> "get_assets_for_entity", value |-> [ok |-> FALSE, assets |-> {}]]
            ELSE [op |-> "get_assets_for_entity",
                  value |-> [ok |-> TRUE, assets |->
                            { [id |-> a.id,
                               is_enabled |-> Unwrap(reported_asset(disk, a.folder_name)).is_enabled,
                               folder_name |-> Unwrap(reported_asset(disk, a.folder_name)).folder_name] :
                              a \in {b \in assets :
                                       /\ b.entity_id = Unwrap(EntityBySlug(entity_slug)).id
                                       /\ IsSome(reported_asset(disk, b.folder_name))} }]]
  /\ UNCHANGED <<taxonomy, disk, assets, nextId, scan, scans, tog, call>>

\* the counts of the dashboard that come from the mods directory
get_dashboard_stats ==
  /\ Issue
  /\ ret' = [op |-> "get_dashboard_stats",
             value |-> [ total_mods |-> Cardinality(assets),
                         enabled_mods |-> Cardinality({a \in assets :
                            /\ a.folder_name # <<>>
                            /\ is_dir(disk, full_path_if_enabled(a.folder_name))}),
                         disabled_mods |-> Cardinality({a \in assets :
                            /\ a.folder_name # <<>>
                            /\ ~is_dir(disk, full_path_if_enabled(a.folder_name))
                            /\ is_dir(disk, full_path_if_disabled(a.folder_name))}) ]]
  /\ UNCHANGED <<taxonomy, disk, assets, nextId, scan, scans, tog, call>>

\* the rows overwrite_preset saves: the state of every catalogued asset
\* whose folder is on disk
assets_to_save(d, rows) ==
  { [asset_id |-> a.id, is_enabled |-> is_dir(d, full_path_if_enabled(a.folder_name))] :
    a \in {b \in rows :
             /\ b.folder_name # <<>>
             /\ \/ is_dir(d, full_path_if_enabled(b.folder_name))
                \/ is_dir(d, full_path_if_disabled(b.folder_name))} }

\* the rows of the preset are replaced; a row for a preset that does not
\* exist is refused by the foreign key
overwrite_preset ==
  /\ Issue
  /\ call.fn = "apply_preset"
  /\ IF ~call.created /\ assets_to_save(disk, assets) # {}
     THEN /\ ret' = [op |-> "overwrite_preset", value |-> "err"]
          /\ UNCHANGED call
     ELSE /\ ret' = [op |-> "overwrite_preset", value |-> "ok"]
          /\ call' = [call EXCEPT !.preset_assets = assets_to_save(disk, assets)]
  /\ UNCHANGED <<taxonomy, disk, assets, nextId, scan, scans, tog>>

\* the current state of the asset is written to the preset
add_asset_to_presets(asset_id) ==
  /\ Issue
  /\ call.fn = "apply_preset"
  /\ IF asset_id \notin AssetIds \/ ~call.created
     THEN /\ ret' = [op |-> "add_asset_to_presets", value |-> "err"]
          /\ UNCHANGED call
     ELSE IF Row(asset_id).folder_name = <<>>
     THEN /\ ret' = [op |-> "add_asset_to_presets", value |-> "err"]
          /\ UNCHANGED call
     ELSE /\ ret' = [op |-> "add_asset_to_presets", value |-> "ok"]
          /\ call' = [call EXCEPT !.preset_assets =
               {x \in @ : x.asset_id # asset_id} \cup
               {[asset_id |-> asset_id,
                 is_enabled |-> get_current_asset_enabled_state(disk, Row(asset_id).folder_name)]}]
  /\ UNCHANGED <<taxonomy, disk, assets, nextId, scan, scans, tog>>

(***************************************************************************)
(* Presets over a mods directory of two mod folders, or of the enabled and  *)
(* the disabled folder of one mod: one scan catalogues them, a preset is    *)
(* created, written and applied, folders are toggled or deleted, and the    *)
(* state of the assets is queried.                                          *)
(***************************************************************************)
MaxPresetScans == 1

PresetDisks ==
  { MakeDisk({[path |-> <<D_KleeMod>>, files |-> <<PlainIni>>],
              [path |-> <<DISABLED_PREFIX \o D_Bow>>, files |-> <<PlainIni>>]}),
    MakeDisk({[path |-> <<D_KleeMod>>, files |-> <<PlainIni>>],
              [path |-> <<D_Bow>>, files |-> <<PlainIni>>]}),
    MakeDisk({[path |-> <<D_KleeMod>>, files |-> <<PlainIni>>],
              [path |-> <<DISABLED_PREFIX \o D_KleeMod>>, files |-> <<PlainIni>>]}),
    MakeDisk({[path |-> <<D_KleeMod>>, files |-> <<PlainIni>>],
              [path |-> <<DISABLED_PREFIX \o D_KleeMod>>, files |-> <<>>]}) }

InitPreset ==
  /\ \E d \in PresetDisks : Installed(GameTaxonomy, d)
  /\ call = NoPreset

NextPreset ==
  \/ scans < MaxPresetScans /\ ScanPrepare("ok")
  \/ ScanTaskStart(TRUE)
  \/ \E q \in UNION {scan.stack[i].pending : i \in DOMAIN scan.stack} :
       \E ok, listed \in Outcomes(NeedsRename(FileName(q))) :
         \E seen \in Outcomes(~is_dir(disk, q)) : ScanStep(q, ok, listed, seen)
  \/ ScanPrune
  \/ ScanFinish
  \/ \E name \in PresetNames : create_preset(name)
  \/ \E id \in AssetIds : \E ok \in BOOLEAN : \E listed \in Outcomes(ScanRunning) :
       toggle_asset_enabled(id, ok, listed)
  \/ \E p \in DOMAIN disk : UserDeletes(p)
  \/ \E entity_slug \in ImportTargets : get_assets_for_entity(entity_slug)
  \/ get_dashboard_stats
  \/ overwrite_preset
  \/ \E id \in RequestIds : add_asset_to_presets(id)
  \/ \E setup \in {"ok", "mods_folder_not_set"} : PresetFetch(setup)
  \/ \E r \in call.fetched : \E ok \in BOOLEAN : \E listed \in Outcomes(ScanRunning) :
       PresetStep(r, ok, listed)
  \/ PresetFinish

SpecPreset == InitPreset /\ [][NextPreset]_vars

(***************************************************************************)
(* The catalog mutex, DbState.  Each command is the sequence of its calls   *)
(* that take or give back the mutex, query the database under it, or go to  *)
(* the file system; commands run on threads of their own, a call at a time. *)
(* What the calls do to the catalog and the mods directory is in the        *)
(* actions above; here call holds the holder of the mutex and, for each     *)
(* command, the index of its call in progress (0: the command is not        *)
(* running).                                                                *)
(***************************************************************************)
Lock(line) == [kind |-> "lock", line |-> line]
Unlock(line) == [kind |-> "unlock", line |-> line]
Db(line) == [kind |-> "db", line |-> line]
Fs(line) == [kind |-> "fs", line |-> line]

\* toggle_asset_enabled: the base path and the stored path are read each
\* under a guard of its own, then the folder is looked up and renamed
ToggleCalls ==
  << Lock(1430), Db(1431), Unlock(1434), Lock(1965), Db(1966), Unlock(1971),
     Fs(2002), Fs(2027) >>

\* update_asset_info, relocating and saving a pasted image: the guard taken
\* first lives to the end of the function
UpdateCalls ==
  << Lock(2533), Db(2537), Db(2548), Fs(2574), Fs(2596), Fs(2600), Fs(2601),
     Fs(2636), Fs(2649), Db(2680), Unlock(2699) >>

\* delete_asset: the guard taken first lives to the end of the function
DeleteCalls ==
  << Lock(2705), Db(2715), Fs(2733), Fs(2747), Db(2753), Unlock(2766) >>

\* import_archive: the guard taken first lives to the end of the function
ImportCalls ==
  << Lock(3399), Db(3401), Fs(3418), Db(3422), Fs(3435), Fs(3561), Db(3615),
     Db(3646), Unlock(3648) >>

Commands == {"toggle_asset_enabled", "update_asset_info", "delete_asset", "import_archive"}

CallsOf(c) ==
  CASE c = "toggle_asset_enabled" -> ToggleCalls
    [] c = "update_asset_info" -> UpdateCalls
    [] c = "delete_asset" -> DeleteCalls
    [] c = "import_archive" -> ImportCalls

NoCommands == [fn |-> "commands", lock |-> "none", at |-> [c \in Commands |-> 0]]

\* the mutex after command c enters call k of its calls: lock() waits for
\* the mutex to be free
Mutex(c, k) ==
  IF k \in DOMAIN CallsOf(c) /\ CallsOf(c)[k].kind = "lock" THEN c
  ELSE IF k \notin DOMAIN CallsOf(c) \/ CallsOf(c)[k].kind = "unlock"
  THEN (IF call.lock = c THEN "none" ELSE call.lock)
  ELSE call.lock

\* command c goes on to its next call, or returns after its last
CommandStep(c) ==
  /\ call.fn = "commands"
  /\ LET k == call.at[c] + 1
     IN /\ (k \in DOMAIN CallsOf(c) /\ CallsOf(c)[k].kind = "lock") => call.lock = "none"
        /\ call' = [call EXCEPT !.at[c] = IF k \in DOMAIN CallsOf(c) THEN k ELSE 0,
                                !.lock = Mutex(c, k)]
  /\ UNCHANGED sysvars

\* the call in progress fails and command c returns the error: its guard, if
\* it holds one, is dropped
CommandFails(c) ==
  /\ call.fn = "commands"
  /\ call.at[c] > 0
  /\ CallsOf(c)[call.at[c]].kind \in {"db", "fs"}
  /\ call' = [call EXCEPT !.at[c] = 0, !.lock = Mutex(c, 0)]
  /\ UNCHANGED sysvars

InitLock ==
  /\ Installed(GameTaxonomy, EmptyDisk)
  /\ call = NoCommands

NextLock ==
  \/ \E c \in Commands : CommandStep(c)
  \/ \E c \in Commands : CommandFails(c)

SpecLock == InitLock /\ [][NextLock]_vars

\* command c has a file system call in progress
InFsCall(c) ==
  /\ call.fn = "commands"
  /\ call.at[c] > 0
  /\ CallsOf(c)[call.at[c]].kind = "fs"

\* C29: while a command has a file system or archive call in progress, the
\* catalog mutex is free or held by another command.
C29_NoFsCallUnderLock == \A c \in Commands : InFsCall(c) => call.lock # c

(***************************************************************************)
(* fn analyze_archive: the entry list it returns.  An archive entry is      *)
(* [path, is_dir, is_likely_mod_root], path a string with forward slashes.  *)
(***************************************************************************)
\* str::ends_with, str::strip_suffix(..).unwrap_or(..)
ends_with(s, p) == Len(p) <= Len(s) /\ SubSeq(s, Len(s) - Len(p) + 1, Len(s)) = p
strip_suffix_or(s, p) == IF ends_with(s, p) THEN SubSeq(s, 1, Len(s) - Len(p)) ELSE s

\* the characters of archive paths, in the order of their bytes
ByteOrder == <<".", "/">> \o UpperLetters \o LowerLetters
Byte(c) == CHOOSE i \in DOMAIN ByteOrder : ByteOrder[i] = c

\* a.cmp(b) = Less, for strings
RECURSIVE cmp_less(_, _)
cmp_less(a, b) ==
  IF b = <<>> THEN FALSE
  ELSE IF a = <<>> THEN TRUE
  ELSE IF Head(a) = Head(b) THEN cmp_less(Tail(a), Tail(b))
  ELSE Byte(Head(a)) < Byte(Head(b))

\* entries.sort_unstable_by(|a, b| a.path.cmp(&b.path))
RECURSIVE sort_unstable_by_path(_)
sort_unstable_by_path(entries) ==
  IF entries = <<>> THEN <<>>
  ELSE LET m == CHOOSE i \in DOMAIN entries :
                  \A j \in DOMAIN entries : ~cmp_less(entries[j].path, entries[i].path)
       IN <<entries[m]>> \o
          sort_unstable_by_path(SubSeq(entries, 1, m - 1) \o SubSeq(entries, m + 1, Len(entries)))

RECURSIVE LastSlash(_)
LastSlash(p) ==
  IF p = <<>> THEN 0 ELSE IF p[Len(p)] = "/" THEN Len(p) ELSE LastSlash(SubSeq(p, 1, Len(p) - 1))

\* Path::new(path).parent() of the path of a file entry
path_parent(p) ==
  IF p = <<>> THEN None ELSE IF LastSlash(p) = 0 THEN Some(<<>>) ELSE Some(Take(p, LastSlash(p) - 1))

DOT_INI == <<".","i","n","i">>
SLASH == <<"/">>

IsIniEntry(e) == ~e.is_dir /\ ends_with(to_lowercase(e.path), DOT_INI)

\* entries.iter().position(..): the index of the first directory entry whose
\* path, less one trailing slash, is parent_path_str_norm
found_parent(entries, parent_path_str_norm) ==
  LET hits == {i \in DOMAIN entries :
                 /\ entries[i].is_dir
                 /\ strip_suffix_or(entries[i].path, SLASH) = parent_path_str_norm}
  IN IF hits = {} THEN None ELSE Some(CHOOSE i \in hits : \A j \in hits : i <= j)

\* pass 2: the indices of the parents of config files
likely_root_indices(entries) ==
  { Unwrap(found_parent(entries, Unwrap(path_parent(entries[i].path)))) :
    i \in {k \in DOMAIN entries :
             /\ IsIniEntry(entries[k])
             /\ IsSome(path_parent(entries[k].path))
             /\ Unwrap(path_parent(entries[k].path)) # <<>>
             /\ IsSome(found_parent(entries, Unwrap(path_parent(entries[k].path))))} }

\* pass 4: the loop over the entries from index on marks the entry of a root
\* and, the first root not yet processed, processes it and breaks
RECURSIVE mark_likely_roots(_, _, _)
mark_likely_roots(entries, roots, index) ==
  IF index > Len(entries) THEN entries
  ELSE IF index \in roots THEN [entries EXCEPT ![index].is_likely_mod_root = TRUE]
  ELSE mark_likely_roots(entries, roots, index + 1)

\* the entries of the result, for the entries listed from the archive
\* the hints of the first .ini file directly inside the first likely root.
\* ini: the Target and Type fields every .ini file of the archive carries
raw_ini_found(entries, roots, ini) ==
  IF roots = {} THEN [target |-> None, type |-> None]
  ELSE LET first == CHOOSE i \in roots : \A j \in roots : i <= j
           root_prefix == IF ends_with(entries[first].path, SLASH) THEN entries[first].path
                          ELSE entries[first].path \o SLASH
       IN IF \E k \in DOMAIN entries :
               /\ IsIniEntry(entries[k])
               /\ starts_with(entries[k].path, root_prefix)
               /\ LastSlash(trim_start_matches(entries[k].path, root_prefix)) = 0
          THEN ini
          ELSE [target |-> None, type |-> None]

\* the last component of an entry's path
LastComponent(path) == Drop(path, LastSlash(path))

\* 2: the stems of the archive's files, in entry order, against the entities
EntityFromFileStems(entries, dm) ==
  FirstSome([i \in DOMAIN entries |->
               IF ~entries[i].is_dir /\ file_stem(LastComponent(entries[i].path)) # <<>>
               THEN find_entity_slug_from_hint(file_stem(LastComponent(entries[i].path)), dm)
               ELSE None])

\* 3: the stem of the archive's file name against the categories
CategoryFromArchiveStem(stem, dm) ==
  LET cleaned_stem == clean_and_extract_name(stem)
      cnames == dm.maps.lowercase_category_name_to_slug
      stem_words == {w \in Range(split_whitespace(cleaned_stem)) : Len(w) > 2}
      byWord == FirstKey(dm.iter.category_name,
                         {x \in Range(dm.iter.category_name) :
                            \E w \in stem_words : contains(x, w)})
  IN IF stem \in DOMAIN dm.maps.category_slug_to_id THEN Some(stem)
     ELSE IF IsSome(MapGet(cnames, cleaned_stem)) THEN MapGet(cnames, cleaned_stem)
     ELSE IF IsSome(byWord) THEN Some(cnames[Unwrap(byWord)])
     ELSE None

\* 4: the final category lookup, made only when a category is still missing
final_category_lookup(deduced_entity_slug, deduced_category_slug, dm) ==
  IF IsSome(deduced_entity_slug) /\ ~IsSome(deduced_category_slug)
  THEN MapGet(dm.maps.entity_slug_to_category_slug, Unwrap(deduced_entity_slug))
  ELSE deduced_category_slug

\* the entity and category slugs the analysis deduces: the hints of the .ini
\* file, then the file stems, then the archive's file name, then the lookup
deduce_from_archive(entries, raw, stem, dm) ==
  LET from_target == IF IsSome(raw.target)
                     THEN find_entity_slug_from_hint(Unwrap(raw.target), dm) ELSE None
      from_type == CategoryIfSome(raw.type, dm)
      from_files == IF IsSome(from_target) THEN from_target
                    ELSE EntityFromFileStems(entries, dm)
      entity == IF IsSome(from_files) THEN from_files
                ELSE find_entity_slug_from_hint(stem, dm)
      category == IF IsSome(from_type) THEN from_type
                  ELSE CategoryFromArchiveStem(stem, dm)
  IN [ deduced_entity_slug |-> entity,
       deduced_category_slug |-> final_category_lookup(entity, category, dm) ]

analyze_archive(listed) ==
  \E sorted \in {sort_unstable_by_path(listed)} :
    \E deduced \in {deduce_from_archive(sorted,
                      raw_ini_found(sorted, likely_root_indices(sorted), call.ini),
                      call.file_stem, call.dm)} :
      call' = [call EXCEPT !.done = TRUE,
                           !.entries = mark_likely_roots(sorted, likely_root_indices(sorted), 1),
                           !.deduced_entity_slug = deduced.deduced_entity_slug,
                           !.deduced_category_slug = deduced.deduced_category_slug]

ArchiveEntry(path, dir) == [path |-> path, is_dir |-> dir, is_likely_mod_root |-> FALSE]

\* the entries an archive may hold
ArchivePool ==
  { ArchiveEntry(<<"a","/">>, TRUE),
    ArchiveEntry(<<"a","/","m",".","i","n","i">>, FALSE),
    ArchiveEntry(<<"a","/","c","/">>, TRUE),
    ArchiveEntry(<<"a","/","c","/","x",".","I","N","I">>, FALSE),
    ArchiveEntry(<<"a","/","t",".","d","d","s">>, FALSE),
    ArchiveEntry(<<"B">>, TRUE),
    ArchiveEntry(<<"B","/","m",".","i","n","i">>, FALSE),
    ArchiveEntry(<<"m",".","i","n","i">>, FALSE) }

\* the entries of S in the order the archive lists them
RECURSIVE Listing(_)
Listing(S) ==
  IF S = {} THEN <<>> ELSE LET e == CHOOSE x \in S : TRUE IN <<e>> \o Listing(S \ {e})

\* the taxonomy of the archive analyses: two categories with their Other
\* entities and one character
ArchiveTaxonomy ==
  [ categories |-> <<CatCharacters, CatWeapons(2)>>,
    entities |-> << OtherEntity(1, CatCharacters),
                    Entity(2, 1, N_Klee, S_klee),
                    OtherEntity(3, CatWeapons(2)) >> ]

\* the Target and Type fields the archive's .ini files may carry
ArchiveInis ==
  { [target |-> None, type |-> None],
    [target |-> Some(N_Klee), type |-> None],
    [target |-> Some(N_Klee), type |-> Some(N_Weapons)] }

\* the stems the archive's file name may have
ArchiveStems == { <<"m","o","d">>, <<"W","e","a","p","o","n","s","_","K","l","e","e">> }

InitArchive ==
  /\ Installed(ArchiveTaxonomy, EmptyDisk)
  /\ \E S \in SUBSET ArchivePool : \E ini \in ArchiveInis : \E stem \in ArchiveStems :
       \E dm \in fetch_deduction_maps(ArchiveTaxonomy) :
         call = [fn |-> "analyze_archive", listed |-> Listing(S), ini |-> ini,
                 file_stem |-> stem, dm |-> dm, done |-> FALSE, entries |-> <<>>,
                 deduced_entity_slug |-> None, deduced_category_slug |-> None]

AnalyzeArchive ==
  /\ call.fn = "analyze_archive" /\ ~call.done
  /\ analyze_archive(call.listed)
  /\ UNCHANGED sysvars

NextArchive == AnalyzeArchive

SpecArchive == InitArchive /\ [][NextArchive]_vars

Analyzed == call.fn = "analyze_archive" /\ call.done

\* C30: in the entries analyze_archive returns, a directory entry is flagged
\* a likely mod root exactly when its path is the immediate parent of a
\* config file entry, whatever the number of such directories.
C30_RootsFlagged ==
  Analyzed =>
    \A i \in DOMAIN call.entries :
      call.entries[i].is_dir =>
        (call.entries[i].is_likely_mod_root
           <=> \E j \in DOMAIN call.entries :
                 /\ IsIniEntry(call.entries[j])
                 /\ path_parent(call.entries[j].path) =
                      Some(strip_suffix_or(call.entries[i].path, SLASH)))

(***************************************************************************)
(* deduce_mod_info_v2 under study, with the part of the scan's loop body    *)
(* that records its result.  The taxonomies are those sync_definitions      *)
(* builds from the categories Characters and Weapons, each alone or both;   *)
(* the mods directory holds one folder, at one of DeducePaths, with one of  *)
(* DeduceFiles as its content; the catalog is empty.                        *)
(***************************************************************************)
D_Weap == <<"W","e","a","p">>
F_klee_dds == <<"k","l","e","e",".","d","d","s">>


DeduceTaxonomies ==
  { GameTaxonomy,
    [ categories |-> <<CatWeapons(1)>>,
      entities |-> <<OtherEntity(1, CatWeapons(1))>> ],
    [ categories |-> <<CatCharacters, CatWeapons(2)>>,
      entities |-> << OtherEntity(1, CatCharacters),
                      Entity(2, 1, N_Klee, S_klee),
                      OtherEntity(3, CatWeapons(2)) >> ] }

DeducePaths ==
  { <<D_Bow>>,
    <<N_Weapons, D_Bow>>,
    <<S_weapons, D_Bow>>,
    <<D_Weap, D_Bow>>,
    <<N_Weapons, D_KleeMod>>,
    <<N_Weapons, N_Characters, D_Bow>>,
    <<N_Klee, D_Bow>>,
    <<N_Weapons, N_Klee, D_Bow>>,
    <<N_Weapons, S_weapons \o OTHER_ENTITY_SUFFIX, D_KleeMod>>,
    <<N_Weapons, S_weapons \o OTHER_ENTITY_SUFFIX, D_Bow>> }

DeduceFiles ==
  { <<>>,
    <<PlainIni>>,
    <<[name |-> F_mod_ini, target |-> Some(N_Klee), type |-> None]>>,
    <<[name |-> F_mod_ini, target |-> None, type |-> Some(N_Characters)]>>,
    <<[name |-> F_mod_ini, target |-> None, type |-> Some(<<>>)]>>,
    <<PlainIni, [name |-> F_klee_dds, target |-> None, type |-> None]>>,
    <<[name |-> F_mod_ini, target |-> Some(S_weapons \o OTHER_ENTITY_SUFFIX), type |-> None],
      [name |-> F_klee_dds, target |-> None, type |-> None]>> }

InitDeduce ==
  /\ \E tax \in DeduceTaxonomies : \E p \in DeducePaths : \E files \in DeduceFiles :
       /\ Installed(tax, MakeDisk({[path |-> p, files |-> files]}))
       /\ call \in {[fn |-> "deduce", done |-> FALSE, path |-> p, dm |-> d, out |-> <<>>,
                      errors_count |-> 0, rows |-> {}] : d \in fetch_deduction_maps(tax)}

\* the deduction for the folder and what the scan's loop body makes of it
DeduceFolder ==
  /\ call.fn = "deduce" /\ ~call.done
  /\ \E processed \in {ProcessCandidate(IdleScan, disk, call.path, call.dm)} :
       call' = [call EXCEPT !.done = TRUE,
                            !.out = deduce_mod_info_v2(disk, call.path, call.dm),
                            !.errors_count = processed.sc.errors_count,
                            !.rows = processed.assets]
  /\ UNCHANGED sysvars

NextDeduce == DeduceFolder

SpecDeduce == InitDeduce /\ [][NextDeduce]_vars

(***************************************************************************)
(* Properties of deduce_mod_info_v2.                                        *)
(***************************************************************************)
Deduced == call.fn = "deduce" /\ call.done
Categories == {taxonomy.categories[i] : i \in DOMAIN taxonomy.categories}

\* the folder lies beneath a top-level folder named Weapons, the taxonomy has
\* the category Weapons, and no step of the entity deduction finds an entity
WeaponsCase ==
  /\ Deduced
  /\ Len(call.path) >= 2 /\ call.path[1] = N_Weapons
  /\ \E c \in Categories : c.name = N_Weapons /\ c.slug = S_weapons
  /\ DeduceEntity(disk[call.path], call.path, call.dm) = None

\* the text names a category: it is a category slug or, lowercased, a
\* category name
NamesCategory(text) ==
  \E c \in Categories : text = c.slug \/ to_lowercase(text) = to_lowercase(c.name)

\* the type hint selects a category: it names one, or a lowercased category
\* name starts with it, or contains it when it is longer than two characters
HintSelectsCategory(type_hint) ==
  \/ NamesCategory(type_hint)
  \/ \E c \in Categories :
       \/ starts_with(to_lowercase(c.name), to_lowercase(type_hint))
       \/ Len(type_hint) > 2 /\ contains(to_lowercase(c.name), to_lowercase(type_hint))

\* C13 as stated: a folder beneath the top-level folder Weapons that matches
\* no entity is deduced to belong to weapons-other.
C13_WeaponsFallback == WeaponsCase => call.out = S_weapons \o OTHER_ENTITY_SUFFIX

\* C13, amended: a folder beneath the top-level folder Weapons that matches
\* no entity, with no folder between the two naming a category and no type
\* hint in its config file selecting one, is deduced to belong to
\* weapons-other.
C13_WeaponsFallbackUnlessNearerCategory ==
  ( /\ WeaponsCase
    /\ \A i \in 2..(Len(call.path) - 1) : ~NamesCategory(call.path[i])
    /\ \A i \in DOMAIN disk[call.path] :
         IsSome(disk[call.path][i].type) => ~HintSelectsCategory(Unwrap(disk[call.path][i].type)) )
    => call.out = S_weapons \o OTHER_ENTITY_SUFFIX

C13_Witness ==
  /\ WeaponsCase
  /\ call.path = <<N_Weapons, D_Bow>>
  /\ disk[call.path] = <<PlainIni>>
  /\ Cardinality(Categories) = 2
  /\ call.out = S_weapons \o OTHER_ENTITY_SUFFIX

\* the entity each source names for the folder under study, if any: its own
\* name; the nearest of its ancestors below the root's immediate child; the
\* target hint of its config file; the first of its files whose stem matches
FromOwnName == find_entity_slug_from_hint(FileName(call.path), call.dm)
MatchingAncestors ==
  {i \in 2..(Len(call.path) - 1) :
     IsSome(find_entity_slug_from_hint(call.path[i], call.dm))}
FromAncestors ==
  IF MatchingAncestors = {} THEN None
  ELSE find_entity_slug_from_hint(
         call.path[CHOOSE i \in MatchingAncestors : \A j \in MatchingAncestors : j <= i],
         call.dm)
TargetHints ==
  {Unwrap(f.target) : f \in {g \in Range(disk[call.path]) : IsIniFile(g) /\ IsSome(g.target)}}
FromTargetHint ==
  IF TargetHints = {} THEN None
  ELSE find_entity_slug_from_hint(CHOOSE h \in TargetHints : TRUE, call.dm)
MatchingStems ==
  {i \in DOMAIN disk[call.path] :
     IsSome(find_entity_slug_from_hint(file_stem(disk[call.path][i].name), call.dm))}
FromFileStems ==
  IF MatchingStems = {} THEN None
  ELSE find_entity_slug_from_hint(
         file_stem(disk[call.path][CHOOSE i \in MatchingStems :
                                     \A j \in MatchingStems : i <= j].name),
         call.dm)
OtherSlugs == {c.slug \o OTHER_ENTITY_SUFFIX : c \in Categories}
                \cup {HardcodedFallbackCategory \o OTHER_ENTITY_SUFFIX}

\* C23: the entity deduced is the one named by the first of the folder's own
\* name, its ancestors, its config target hint and its file stems that names
\* one, and a category's fallback entity only when none of them does.
C23_FirstSourceWins ==
  Deduced =>
    /\ IsSome(FromOwnName) => call.out = Unwrap(FromOwnName)
    /\ (~IsSome(FromOwnName) /\ IsSome(FromAncestors)) => call.out = Unwrap(FromAncestors)
    /\ (~IsSome(FromOwnName) /\ ~IsSome(FromAncestors) /\ IsSome(FromTargetHint))
         => call.out = Unwrap(FromTargetHint)
    /\ ( /\ ~IsSome(FromOwnName) /\ ~IsSome(FromAncestors) /\ ~IsSome(FromTargetHint)
         /\ IsSome(FromFileStems) ) => call.out = Unwrap(FromFileStems)
    /\ ( /\ ~IsSome(FromOwnName) /\ ~IsSome(FromAncestors) /\ ~IsSome(FromTargetHint)
         /\ ~IsSome(FromFileStems) ) => call.out \in OtherSlugs

\* the ancestor names one entity, the config target hint and a file stem
\* another, and the folder's own name none
C23_Witness ==
  /\ Deduced
  /\ ~IsSome(FromOwnName)
  /\ IsSome(FromAncestors) /\ IsSome(FromTargetHint) /\ IsSome(FromFileStems)
  /\ FromAncestors # FromFileStems
  /\ call.out = Unwrap(FromAncestors)

\* C14: the slug deduced for a candidate folder is the slug of an entity of
\* the index, and the scan records a row for the folder and counts no error.
C14_DeductionResolves ==
  (Deduced /\ has_ini_file(disk, call.path)) =>
    /\ call.out \in DOMAIN call.dm.maps.entity_slug_to_id
    /\ call.errors_count = 0
    /\ \E a \in call.rows : a.folder_name = call.path

(***************************************************************************)
(* Properties of the scan.                                                  *)
(***************************************************************************)
\* a scan has completed and nothing but the scan has changed the disk or the
\* catalog since it started
ScanDone == scan.pc = "done" /\ ~scan.disturbed

\* the forms an asset's folder may take on disk
EnabledForm(folder_name) == folder_name
DisabledForm(folder_name) ==
  SubSeq(folder_name, 1, Len(folder_name) - 1)
    \o <<DISABLED_PREFIX \o folder_name[Len(folder_name)]>>
UnderscorelessForm(folder_name) ==
  SubSeq(folder_name, 1, Len(folder_name) - 1)
    \o <<DISABLED_WORD \o folder_name[Len(folder_name)]>>

Present(a, d) ==
  EnabledForm(a.folder_name) \in DOMAIN d \/ DisabledForm(a.folder_name) \in DOMAIN d

\* C1: a scan run straight after a completed scan, with nothing changed in
\* between and no error met by either, inserts no row, deletes no row and
\* leaves the catalog as it was.
C1_ScanIdempotent ==
  (ScanDone /\ scan.second /\ scan.first_errors = 0 /\ scan.errors_count = 0) =>
    /\ assets = scan.assets0
    /\ scan.mods_added_count = 0
    /\ scan.pruned_count = 0

C3_PresentAssetKept ==
  ScanDone =>
    \A a \in scan.assets0 : (Present(a, scan.disk0) /\ Present(a, disk)) => a \in assets

C19_ScanOnSharedConnection == scan.pc = "walk" => scan.conn = SHARED_CONNECTION

TerminalEvents == {SCAN_COMPLETE_EVENT, SCAN_ERROR_EVENT}

\* C20: an invocation of the scan that has returned has emitted exactly one
\* terminal event, scan complete if it returned success and scan error if it
\* returned failure, and no invocation emits a progress event after a
\* terminal event.
C20_OneTerminalEvent ==
  /\ scan.returned # "none" =>
       SelectSeq(scan.events, LAMBDA e : e \in TerminalEvents)
         = <<IF scan.returned = "ok" THEN SCAN_COMPLETE_EVENT ELSE SCAN_ERROR_EVENT>>
  /\ \A i, j \in DOMAIN scan.events :
       (i < j /\ scan.events[i] \in TerminalEvents) => scan.events[j] # SCAN_PROGRESS_EVENT

\* C21: a scan that counted an error for a folder reports failure to its
\* caller.
C21_ErrorsReportFailure ==
  (scan.returned # "none" /\ scan.errors_count > 0) => scan.returned = "err"

\* the folders the walk has processed as candidates, and those among them
\* with a row inserted or marked found in this scan
Candidates == scan.processed_mod_paths
Recorded(p) ==
  \E a \in assets : a.id \in scan.found_asset_ids /\ a.folder_name = relative_path_to_store(p)

\* C24: no folder beneath a folder that the walk has processed as a
\* candidate is processed as a candidate in the same scan.
C24_NoNestedCandidate ==
  \A p, q \in Candidates : ~(IsPrefix(p, q) /\ p # q)

\* the folder's name starts with DISABLED but not with DISABLED_
Malformed(p) ==
  Len(p) >= 1 /\ starts_with(FileName(p), DISABLED_WORD)
              /\ ~starts_with(FileName(p), DISABLED_PREFIX)

\* the folders with a config file that lie beneath no folder with a config
\* file and beneath no folder with a malformed marker, and have none
Reachable(d) ==
  {q \in DOMAIN d :
     /\ has_ini_file(d, q)
     /\ ~Malformed(q)
     /\ \A k \in 1..(Len(q) - 1) :
          ~has_ini_file(d, SubSeq(q, 1, k)) /\ ~Malformed(SubSeq(q, 1, k))}

\* C25: a top-level folder whose marker is still malformed when the scan has
\* completed is one whose rename failed: the scan has processed, inserted
\* and marked found nothing for it or beneath it, has counted one error, and
\* has processed the other mod folders.
C25_FailedRepairSkipped ==
  (ScanDone /\ \E p \in DOMAIN disk : Len(p) = 1 /\ Malformed(p)) =>
    /\ \A p \in DOMAIN disk : (Len(p) = 1 /\ Malformed(p)) =>
         \A q \in DOMAIN disk : IsPrefix(p, q) => (q \notin Candidates /\ ~Recorded(q))
    /\ scan.errors_count = 1
    /\ Reachable(disk) \subseteq Candidates

C25_Witness ==
  /\ ScanDone
  /\ scan.errors_count = 1
  /\ \E p \in DOMAIN disk :
       /\ Len(p) = 1 /\ Malformed(p)
       /\ \E q \in DOMAIN disk : IsPrefix(p, q) /\ q # p /\ has_ini_file(disk, q)
  /\ Candidates # {}

\* the rows catalogued under stored path p
RowsAt(p) == {a \in assets : a.folder_name = p}

\* the stored paths refused in the scan that ran k scans before this one
RefusedBefore(k) == IF k \in DOMAIN scan.refused THEN scan.refused[k] ELSE {}

PresetApplied == call.fn = "apply_preset" /\ call.pc = "done"

\* the folder of the asset of row r is on disk d in the state the preset asks
InDesired(r, d) ==
  IF r.desired_is_enabled
  THEN is_dir(d, full_path_if_enabled(r.clean_relative_path))
  ELSE /\ ~is_dir(d, full_path_if_enabled(r.clean_relative_path))
       /\ is_dir(d, full_path_if_disabled(r.clean_relative_path))

\* the asset of row r has no folder on disk d, enabled or disabled
Missing(r, d) ==
  /\ ~is_dir(d, full_path_if_enabled(r.clean_relative_path))
  /\ ~is_dir(d, full_path_if_disabled(r.clean_relative_path))

\* the step is the round of apply_preset's loop for row r
RoundOf(r) ==
  /\ call.fn = "apply_preset" /\ call.pc = "apply" /\ call'.pc = "apply"
  /\ r.asset_id \in call'.attempted \ call.attempted

\* C28: every round of apply_preset's loop records a failure for an asset
\* whose folder is missing or whose rename fails, renames nothing but the
\* folder of its own asset and undoes no rename of an earlier round, whatever
\* failed before; when apply_preset is over every asset of the preset has
\* had its round, and it has emitted the complete event and returned success
\* if no asset failed, the error event and a failure naming every failed
\* asset otherwise.
C28_PresetFailurePolicy ==
  /\ [][\A r \in (IF call.fn = "apply_preset" THEN call.fetched ELSE {}) :
          RoundOf(r) =>
            /\ Missing(r, disk) => disk' = disk /\ r.asset_id \in Range(call'.errors)
            /\ InDesired(r, disk) => disk' = disk /\ r.asset_id \notin Range(call'.errors)
            /\ disk' # disk => InDesired(r, disk') /\ r.asset_id \notin Range(call'.errors)
            /\ disk' = disk /\ ~InDesired(r, disk) => r.asset_id \in Range(call'.errors)
            /\ Range(call.errors) \subseteq Range(call'.errors)
            /\ \A s \in call.fetched :
                 s.asset_id \in call.renamed /\ InDesired(s, disk) => InDesired(s, disk')]_vars
  /\ [](PresetApplied =>
          /\ call.attempted = {r.asset_id : r \in call.fetched}
          /\ call.returned = (IF call.errors = <<>> THEN "ok" ELSE "err")
          /\ call.events[Len(call.events)] =
               (IF call.errors = <<>> THEN PRESET_APPLY_COMPLETE_EVENT
                ELSE PRESET_APPLY_ERROR_EVENT)
          /\ \A i \in 1..(Len(call.events) - 1) :
               call.events[i] \notin {PRESET_APPLY_COMPLETE_EVENT, PRESET_APPLY_ERROR_EVENT})

\* apply_preset is over for a preset of two assets: one failed, the folder of
\* the other was renamed and is in the state the preset asks
C28_Witness ==
  /\ PresetApplied
  /\ Cardinality(call.fetched) = 2
  /\ Len(call.errors) = 1
  /\ call.returned = "err"
  /\ \E r \in call.fetched : r.asset_id \in call.renamed /\ InDesired(r, disk)

\* both the enabled and the disabled folder of asset a are on disk
BothForms(a) ==
  /\ a.folder_name # <<>>
  /\ is_dir(disk, full_path_if_enabled(a.folder_name))
  /\ is_dir(disk, full_path_if_disabled(a.folder_name))

\* the step is a call of the command that returns under the name op
Called(op) == ops' = ops + 1 /\ ret'.op = op

\* the step is a call of the command op, one that leaves the mods directory
\* as it is
Queried(op) == Called(op) /\ disk' = disk

\* C31: while both the enabled and the disabled folder of an asset are on
\* disk, every command that derives the state of the asset takes it as
\* enabled: toggle_asset_enabled and apply_preset rename nothing but the
\* enabled folder, get_assets_for_entity reports the asset enabled at its
\* enabled path, get_dashboard_stats counts it enabled, and create_preset,
\* overwrite_preset and add_asset_to_presets record it enabled.
C31_BothFormsEnabled ==
  [][/\ \A a \in assets : BothForms(a) =>
          /\ Called("toggle") /\ tog'.id = a.id /\ disk' # disk =>
               /\ disk' = Rename(disk, full_path_if_enabled(a.folder_name),
                                 full_path_if_disabled(a.folder_name))
               /\ ret'.value = "ok_false"
          /\ Queried("get_assets_for_entity") =>
               \A x \in ret'.value.assets :
                 x.id = a.id => x.is_enabled /\ x.folder_name = a.folder_name
          /\ call.fn = "apply_preset" /\ ((~call.created /\ call'.created) \/ Queried("overwrite_preset")) =>
               \A x \in call'.preset_assets : x.asset_id = a.id => x.is_enabled
          /\ call.fn = "apply_preset" /\ Queried("add_asset_to_presets") =>
               \A x \in call'.preset_assets \ call.preset_assets : x.asset_id = a.id => x.is_enabled
          /\ \A r \in (IF call.fn = "apply_preset" THEN call.fetched ELSE {}) :
               RoundOf(r) /\ r.asset_id = a.id /\ r.clean_relative_path = a.folder_name =>
                 /\ r.desired_is_enabled => disk' = disk /\ r.asset_id \notin Range(call'.errors)
                 /\ ~r.desired_is_enabled =>
                      \/ (disk' = disk /\ r.asset_id \in Range(call'.errors))
                      \/ disk' = Rename(disk, full_path_if_enabled(a.folder_name),
                                        full_path_if_disabled(a.folder_name))
     /\ Queried("get_dashboard_stats") =>
          /\ ret'.value.enabled_mods >= Cardinality({a \in assets : BothForms(a)})
          /\ ret'.value.disabled_mods <= Cardinality({a \in assets : ~BothForms(a)})]_vars

\* get_assets_for_entity has just reported, enabled, an asset with both
\* folders on disk that the preset records enabled
C31_Witness ==
  /\ ret.op = "get_assets_for_entity"
  /\ call.fn = "apply_preset"
  /\ \E a \in assets :
       /\ BothForms(a)
       /\ \E x \in ret.value.assets : x.id = a.id /\ x.is_enabled
       /\ \E x \in call.preset_assets : x.asset_id = a.id /\ x.is_enabled

\* the processed value of the latest progress event of the scan sc
ProcessedOf(sc) == IF sc.progress = <<>> THEN 0 ELSE sc.progress[Len(sc.progress)].processed

\* C32: within one scan that alone changes the disk, the processed value of
\* successive scan progress events never decreases, is the number of candidate
\* folders processed so far (one more with each candidate), and never exceeds
\* the total carried by the same event.
C32_ProgressMonotone ==
  /\ [](~scan.disturbed =>
          /\ \A i \in DOMAIN scan.progress :
                /\ scan.progress[i].processed <= scan.progress[i].total
                /\ scan.progress[i].total = scan.total
                /\ i > 1 => scan.progress[i].processed >= scan.progress[i - 1].processed
          /\ ProcessedOf(scan) = Cardinality(scan.processed_mod_paths))
  /\ [][(/\ scan.pc = "walk"
         /\ ~scan'.disturbed
         /\ scan'.processed_mod_paths # scan.processed_mod_paths)
        => /\ Len(scan'.progress) > Len(scan.progress)
           /\ ProcessedOf(scan') = ProcessedOf(scan) + 1]_vars

\* a finished scan that reported a repair and then processed two candidates
C32_Witness ==
  /\ scan.pc = "done"
  /\ ~scan.disturbed
  /\ scan.renamed_count >= 1
  /\ ProcessedOf(scan) >= 2
  /\ ProcessedOf(scan) = scan.total
  /\ \E i \in DOMAIN scan.progress :
        i > 1 /\ scan.progress[i].processed = scan.progress[i - 1].processed

\* the folders a walk of d processes: those with an .ini file outside any other
WalkCandidates(d) ==
  {p \in DOMAIN d : /\ Len(p) >= 1
                    /\ has_ini_file(d, p)
                    /\ \A k \in 1..(Len(p) - 1) : ~has_ini_file(d, SubSeq(p, 1, k))}

\* the rows one scan alone leaves from the catalog rows0, its index being dm,
\* when no two candidates are stored under the same path: a row for every
\* candidate with a deduced entity and no row for another entity
SingleRunRows(rows0, d, dm) ==
  {[entity_id |-> Unwrap(MapGet(dm.maps.entity_slug_to_id, deduce_mod_info_v2(d, c, dm))),
    folder_name |-> relative_path_to_store(c)] :
     c \in {p \in WalkCandidates(d) :
              /\ IsSome(MapGet(dm.maps.entity_slug_to_id, deduce_mod_info_v2(d, p, dm)))
              /\ ~\E a \in rows0 :
                    /\ a.folder_name = relative_path_to_store(p)
                    /\ a.entity_id #
                         Unwrap(MapGet(dm.maps.entity_slug_to_id, deduce_mod_info_v2(d, p, dm)))}}

\* the (entity, folder_name) pairs of the catalog
RowsLeft == {[entity_id |-> a.entity_id, folder_name |-> a.folder_name] : a \in assets}

BothScansDone == call.fn = "scans" /\ scan.pc = "done" /\ call.waiting.pc = "done"

\* C33: two scans interleaved in any way over the same mods directory never
\* leave two rows with the same folder_name, and once both have finished the
\* (entity, folder_name) rows are those one scan alone leaves from the catalog
\* the two started from.
C33_ConcurrentScansAgree ==
  /\ \A a, b \in assets : a.folder_name = b.folder_name => a = b
  /\ BothScansDone =>
       RowsLeft \in {SingleRunRows(call.start, disk, dm) : dm \in fetch_deduction_maps(taxonomy)}

\* one toggle, of a catalogued asset, is all that changed the disk since the
\* scan was prepared
ToggledDuringScan ==
  /\ tog.count = 1
  /\ tog.disk0 = scan.disk0
  /\ disk = Rename(scan.disk0, tog.orig, tog.dest)
  /\ tog.id \in {a.id : a \in scan.assets0}
  /\ tog.id \in AssetIds

\* C34: when toggle_asset_enabled renames the folder of a catalogued asset
\* while a scan is under way and nothing else changes the disk, the asset's row
\* is still in the catalog when the scan has pruned.
C34_ToggledAssetKept ==
  [][(scan.pc = "walk" /\ scan'.pc = "finish" /\ ToggledDuringScan)
       => tog.id \in {a.id : a \in assets'}]_vars

\* the step is an import refused for the row its target already has
ImportRefusedAsExisting == ops' = ops + 1 /\ ret'.op = "import" /\ ret'.message = ENTRY_EXISTS

\* C35: when import_archive fails because the catalog already holds a row
\* for its target entity and path, every catalogued mod folder that was on
\* disk is still there with the same files, and the catalog rows are the same.
C35_RefusedImportKeepsFolder ==
  [][ImportRefusedAsExisting =>
       /\ assets' = assets
       /\ \A a \in assets :
            is_dir(disk, a.folder_name) =>
              /\ is_dir(disk', a.folder_name)
              /\ disk'[a.folder_name] = disk[a.folder_name]]_vars

\* the step is an update whose request names another entity than the asset's
Relocating ==
  /\ ops' = ops + 1
  /\ ret'.op = "update"
  /\ ret'.request.asset_id \in AssetIds
  /\ IsSome(ret'.request.new_target_entity_slug)
  /\ Unwrap(ret'.request.new_target_entity_slug) #
       Unwrap(get_asset_location_info(ret'.request.asset_id)).entity_slug

\* the path stored for the asset a once relocated to the entity target
RelocatedPath(a, target) ==
  << CategoryById(Unwrap(EntityBySlug(target)).category_id).slug, target,
     trim_start_matches(FileName(a.folder_name), DISABLED_PREFIX) >>

\* C36: a request of update_asset_info that relocates an asset to another
\* entity either fails and leaves the folder where it was and the row as it
\* was, or succeeds with the folder under the new entity's path in the form it
\* had (enabled or disabled) and the row holding the new entity and path.
C36_RelocationAllOrNothing ==
  [][Relocating =>
       \E a \in {Row(ret'.request.asset_id)} :
         \E target \in {Unwrap(ret'.request.new_target_entity_slug)} :
           /\ ret'.value = "err" =>
                /\ assets' = assets
                /\ is_dir(disk', full_path_if_enabled(a.folder_name))
                     = is_dir(disk, full_path_if_enabled(a.folder_name))
                /\ is_dir(disk', full_path_if_disabled(a.folder_name))
                     = is_dir(disk, full_path_if_disabled(a.folder_name))
           /\ ret'.value = "ok" =>
                /\ \E b \in assets' :
                     /\ b.id = a.id
                     /\ b.entity_id = Unwrap(EntityBySlug(target)).id
                     /\ b.folder_name = RelocatedPath(a, target)
                /\ IF is_dir(disk, full_path_if_enabled(a.folder_name))
                   THEN /\ is_dir(disk', full_path_if_enabled(RelocatedPath(a, target)))
                        /\ ~is_dir(disk', full_path_if_enabled(a.folder_name))
                   ELSE /\ is_dir(disk', full_path_if_disabled(RelocatedPath(a, target)))
                        /\ ~is_dir(disk', full_path_if_disabled(a.folder_name))]_vars

\* the category the index gives for an entity slug
OwnerInIndex(entity_slug) == MapGet(call.dm.maps.entity_slug_to_category_slug, entity_slug)

\* C37: when an archive analysis returns an entity slug and a category slug,
\* the category is the one the index gives for the entity; and when it returns
\* an entity slug the index gives a category for, a category slug is returned.
C37_ArchiveDeductionConsistent ==
  Analyzed =>
    /\ (IsSome(call.deduced_entity_slug) /\ IsSome(call.deduced_category_slug))
         => call.deduced_category_slug = OwnerInIndex(Unwrap(call.deduced_entity_slug))
    /\ (IsSome(call.deduced_entity_slug)
        /\ IsSome(OwnerInIndex(Unwrap(call.deduced_entity_slug))))
         => IsSome(call.deduced_category_slug)

\* the step is the successful return of apply_preset
PresetReturnsOk ==
  call.fn = "apply_preset" /\ call.pc = "apply" /\ call'.pc = "done" /\ call'.returned = "ok"

\* the rows fetched are those a capture of the current directory would save
CapturesCurrentState ==
  {[asset_id |-> x.asset_id, is_enabled |-> x.desired_is_enabled] : x \in call.fetched}
    = assets_to_save(disk, assets)

C27_TotalIsProcessed ==
  (ScanDone /\ scan.errors_count = 0) => scan.processed_count = scan.total

(***************************************************************************)
(* Properties of the catalog.                                               *)
(***************************************************************************)
\* C15: no two rows of the assets table have the same folder_name.
C15_FolderNamesUnique ==
  \A a, b \in assets : a.folder_name = b.folder_name => a.id = b.id

\* a scan has processed a folder whose path a row of another entity holds:
\* the insert was refused and the row was not marked as found
C15_Witness ==
  /\ scan.pc = "walk"
  /\ \E p \in scan.processed_mod_paths : \E a \in assets :
       /\ a.folder_name = relative_path_to_store(p)
       /\ a.id \notin scan.found_asset_ids
       /\ a.entity_id # Unwrap(MapGet(scan.maps.entity_slug_to_id,
                                       deduce_mod_info_v2(disk, p, [maps |-> scan.maps,
                                                                    iter |-> scan.iter])))

\* C17: the last segment of the folder_name of a row never begins with the
\* marker DISABLED_, whatever the names of the folders on disk.
C17_StoredNameMarkerFree ==
  \A a \in assets : ~starts_with(FileName(a.folder_name), DISABLED_PREFIX)

\* the row's folder_name is <category-slug>/<entity-slug>/<mod-folder-name>
\* for the row's own entity and that entity's category
NamedByConvention(a) ==
  /\ Len(a.folder_name) = 3
  /\ a.folder_name[2] = EntityById(a.entity_id).slug
  /\ a.folder_name[1] = CategoryById(EntityById(a.entity_id).category_id).slug

\* C16: every row that a scan or an import adds to the assets table has a
\* folder_name of the form <category-slug>/<entity-slug>/<mod-folder-name>,
\* with the slug of the row's own entity and of that entity's category.
C16_CreatedByConvention ==
  [][\A a \in assets' : a.id \notin AssetIds => NamedByConvention(a)]_vars

(***************************************************************************)
(* Properties of toggle_asset_enabled.                                      *)
(***************************************************************************)
\* C4: of two toggles in succession of an asset whose folder has exactly one
\* of its two forms, both succeeding and with no other change to the disk,
\* the first leaves the folder at the other form's path and the second
\* leaves the disk as it was.
C4_ToggleRoundTrip ==
  tog.single =>
    /\ tog.count >= 1 =>
         /\ tog.orig \in {EnabledForm(tog.clean), DisabledForm(tog.clean)}
         /\ tog.dest \in {EnabledForm(tog.clean), DisabledForm(tog.clean)} \ {tog.orig}
         /\ tog.orig \in DOMAIN tog.disk0 /\ tog.dest \notin DOMAIN tog.disk0
    /\ tog.count = 1 =>
         /\ tog.dest \in DOMAIN disk /\ tog.orig \notin DOMAIN disk
         /\ disk[tog.dest] = tog.disk0[tog.orig]
    /\ tog.count = 2 => disk = tog.disk0

C4_Witness ==
  /\ tog.single /\ tog.count = 2
  /\ disk = tog.disk0
  /\ tog.orig \in DOMAIN disk
  /\ ret = [op |-> "toggle", value |-> "ok_true"]

\* a step that is a call of toggle_asset_enabled
ToggleCalled == ops' = ops + 1 /\ ret'.op = "toggle"

\* C5: a call of toggle_asset_enabled, whether it succeeds or fails, leaves
\* every row of the catalog as it was.
C5_ToggleKeepsCatalog == [][ToggleCalled => assets' = assets]_vars

C5_Witness ==
  /\ ret = [op |-> "toggle", value |-> "ok_false"]
  /\ \E a \in assets :
       /\ EnabledForm(a.folder_name) \notin DOMAIN disk
       /\ DisabledForm(a.folder_name) \in DOMAIN disk

\* C6: a toggle of an asset with only its enabled folder on disk renames it
\* to the disabled path and returns false; with only its disabled folder, it
\* renames it to the enabled path and returns true (in both cases provided
\* the platform carries out the rename); with neither, it returns an error
\* and leaves the disk as it was.
C6_ToggleClassification ==
  [][\A id \in AssetIds : \A ok, listed \in BOOLEAN :
       toggle_asset_enabled(id, ok, listed) =>
         LET e == EnabledForm(Row(id).folder_name)
             d == DisabledForm(Row(id).folder_name)
         IN /\ (ok /\ e \in DOMAIN disk /\ d \notin DOMAIN disk) =>
                 /\ ret'.value = "ok_false"
                 /\ d \in DOMAIN disk' /\ e \notin DOMAIN disk'
                 /\ disk'[d] = disk[e]
            /\ (ok /\ e \notin DOMAIN disk /\ d \in DOMAIN disk) =>
                 /\ ret'.value = "ok_true"
                 /\ e \in DOMAIN disk' /\ d \notin DOMAIN disk'
                 /\ disk'[e] = disk[d]
            /\ (e \notin DOMAIN disk /\ d \notin DOMAIN disk) =>
                 /\ ret'.value = "err"
                 /\ disk' = disk]_vars

C6_Witness ==
  /\ ret = [op |-> "toggle", value |-> "ok_true"]
  /\ tog.count = 1
  /\ \E a \in assets :
       /\ a.id = tog.id
       /\ EnabledForm(a.folder_name) \in DOMAIN disk
       /\ DisabledForm(a.folder_name) \notin DOMAIN disk

C6_WitnessMissing ==
  /\ ret = [op |-> "toggle", value |-> "err"]
  /\ \E a \in assets : ~Present(a, disk)

=============================================================================
